---- MODULE Spec2Model ----
(***************************************************************************)
(* Model of src/server.js: the Visit Tracker (pageVisits and its deadline  *)
(* timers), the Challenge Store (challenges) and the HTTP handlers that    *)
(* drive them.  Node runs every handler and every timer callback to        *)
(* completion on one event loop, so each of them is one atomic action.     *)
(***************************************************************************)
EXTENDS Integers, Sequences, FiniteSets, TLC

VARIABLES
  now,         \* Date.now(), in ms
  pageVisits,  \* the Map ip -> visit record (server.js:142)
  timers,      \* the armed setTimeout handles, as <<ip, due>> pairs
  botVerdicts, \* per ip: [bot-verdict] lines / finalVerdict assignments of the current session
  challenges,  \* the Map challengeId -> challenge record (server.js:301)
  issued,      \* per challenge id: what the collector has from the response of
               \* GET /api/challenge (eval(challenge) and timingChallenge), and
               \* whether a verify has been sent for it
  redeemed,    \* challenge ids on which a verify found a stored challenge
  last,        \* the response (and log line) of the latest handler or callback
  request,     \* the request an evaluator is given: its route, headers and body
  client       \* the collector of one page load: the refs, state and timer of App

vars ==
  <<now, pageVisits, timers, botVerdicts, challenges, issued, redeemed, last, request,
    client>>

(***************************************************************************)
(* Program constants.                                                      *)
(***************************************************************************)
VISIT_TTL == 5000
CHALLENGE_TTL == 60000
VisitMaxAge == 60000
TimingWindow == 1000
MaxExecutionTime == 5000
OperandRange == 100

(***************************************************************************)
(* Bounds of the model.                                                    *)
(***************************************************************************)
MaxSkew == 1
MaxOperand == 1
MaxAbsent == 1

IPs == {"10.0.0.1", "10.0.0.2"}
ChallengeIds == {"k3x9", "p07q"}

\* Date.now() when the server starts: milliseconds since 1970, more than any
\* window of the program
Epoch == 1 + TimingWindow

\* The instants at which something happens: a grid on both sides of every
\* TTL boundary of the program.
Instants ==
  { Epoch + (a * VISIT_TTL) + (b * VisitMaxAge) + c :
      a \in 0..1, b \in 0..1, c \in 0..MaxSkew }

(***************************************************************************)
(* JSON / JavaScript values of request bodies.                             *)
(***************************************************************************)
Undefined == [t |-> "undefined", v |-> 0]
Null == [t |-> "null", v |-> 0]
Num(n) == [t |-> "number", v |-> n]
Str(n) == [t |-> "string", v |-> n]       \* the numeric string "n"
Text(s) == [t |-> "text", v |-> s]        \* the string s, "" or not a numeral
Bool(b) == [t |-> "boolean", v |-> IF b THEN 1 ELSE 0]
Arr(n) == [t |-> "array", v |-> n]        \* an array of n non-numeric strings
Object(fields) == [t |-> "object", v |-> fields]
EmptyObject == Object([k \in {} |-> Undefined])

\* o?.k
Get(o, k) == IF o.t = "object" /\ k \in DOMAIN o.v THEN o.v[k] ELSE Undefined
\* o?.k1?.k2
Get2(o, k1, k2) == Get(Get(o, k1), k2)
\* the object o with key k set to x
With(o, k, x) ==
  Object([j \in (DOMAIN o.v) \cup {k} |-> IF j = k THEN x ELSE o.v[j]])

\* the object o without key k
Without(o, k) == Object([j \in (DOMAIN o.v) \ {k} |-> o.v[j]])

\* JavaScript truthiness: undefined, null, 0, false and "" are falsy
Truthy(x) ==
  CASE x.t \in {"undefined", "null"} -> FALSE
    [] x.t = "number" -> x.v # 0
    [] x.t = "boolean" -> x.v = 1
    [] x.t = "text" -> x.v # ""
    [] OTHER -> TRUE

\* x || y, x && y, x ?? y
Or(x, y) == IF Truthy(x) THEN x ELSE y
And(x, y) == IF Truthy(x) THEN y ELSE x
Nullish(x, y) == IF x.t \in {"undefined", "null"} THEN y ELSE x

\* ToNumber: NaN for undefined, objects, non-empty arrays of strings and
\* strings that are no numerals; every comparison with NaN is false.
IsNaN(x) ==
  CASE x.t \in {"undefined", "object"} -> TRUE
    [] x.t = "text" -> x.v # ""
    [] x.t = "array" -> x.v # 0
    [] OTHER -> FALSE
ToNumber(x) == IF x.t \in {"number", "string", "boolean"} THEN x.v ELSE 0

\* x > n and x < n for a number n
Gt(x, n) == ~IsNaN(x) /\ ToNumber(x) > n
Lt(x, n) == ~IsNaN(x) /\ ToNumber(x) < n

\* x === y; a parsed object or array is identical to no other value
StrictEq(x, y) == x.t = y.t /\ x.t \notin {"object", "array"} /\ x.v = y.v

\* typeof x === 'string'
IsString(x) == x.t \in {"string", "text"}

\* String.prototype.includes, toLowerCase and split(sep)[0]
Includes(s, sub) ==
  \E i \in 1..(Len(s) - Len(sub) + 1) : SubSeq(s, i, i + Len(sub) - 1) = sub

UpperCaseLetters == "ABCDEFGHIJKLMNOPQRSTUVWXYZ"
LowerCaseLetters == "abcdefghijklmnopqrstuvwxyz"
LowerChar(c) ==
  IF Includes(UpperCaseLetters, c)
    THEN LET i == CHOOSE j \in 1..Len(UpperCaseLetters) :
                    SubSeq(UpperCaseLetters, j, j) = c
         IN  SubSeq(LowerCaseLetters, i, i)
    ELSE c

\* character by character, the string split in halves
RECURSIVE toLowerCase(_)
toLowerCase(s) ==
  IF s = "" THEN ""
  ELSE IF Len(s) = 1 THEN LowerChar(s)
  ELSE toLowerCase(SubSeq(s, 1, Len(s) \div 2))
         \o toLowerCase(SubSeq(s, (Len(s) \div 2) + 1, Len(s)))

RECURSIVE FirstPart(_, _)
FirstPart(s, sep) ==
  IF s = "" \/ SubSeq(s, 1, 1) = sep THEN ""
  ELSE SubSeq(s, 1, 1) \o FirstPart(SubSeq(s, 2, Len(s)), sep)

Abs(n) == IF n < 0 THEN -n ELSE n

(***************************************************************************)
(* Verdict objects.                                                        *)
(***************************************************************************)
NullVerdict ==
  [verdict |-> "null", score |-> 0, maxScore |-> 0, code |-> 0,
   confidence |-> "null", reason |-> "null", signals |-> << >>,
   allSignals |-> << >>, totalChecks |-> 0, flagged |-> 0, passed |-> 0]

TimeoutReason ==
  "Fetched page but never called /api/bot within 5 seconds (no JS execution)"

SingleSignal(name, reason) ==
  [name |-> name, detected |-> TRUE, weight |-> 100, reason |-> reason,
   category |-> "automation"]

\* the object assigned to visit.finalVerdict
TimeoutVerdict(reason) ==
  [verdict |-> "bot", score |-> 100, maxScore |-> 100, code |-> 1006,
   confidence |-> "high", reason |-> reason,
   signals |-> <<SingleSignal("noJsExecution", reason)>>,
   allSignals |-> <<SingleSignal("noJsExecution", reason)>>,
   totalChecks |-> 1, flagged |-> 1, passed |-> 0]

\* the object POST /api/bot answers on its early rejection
EarlyRejectVerdict(reason) ==
  [verdict |-> "bot", score |-> 100, maxScore |-> 100, code |-> 1005,
   confidence |-> "high", reason |-> reason,
   signals |-> <<SingleSignal("jsExecutionFailed", reason)>>,
   allSignals |-> <<SingleSignal("jsExecutionFailed", reason)>>,
   totalChecks |-> 1, flagged |-> 1, passed |-> 0]

(***************************************************************************)
(* The record of the latest response.                                      *)
(***************************************************************************)
NoLog == [emitted |-> FALSE, botApiCalled |-> FALSE, challengeCompleted |-> FALSE]

NoLast ==
  [op |-> "none", ip |-> "none", id |-> "none",
   verdict |-> "none", code |-> 0, reason |-> "none", remaining |-> 0,
   body |-> NullVerdict, evaluated |-> FALSE,
   found |-> FALSE, valid |-> FALSE, timingValid |-> Undefined, solveTime |-> 0,
   botVerdictLog |-> NoLog,
   headerAnalysis |-> "none",   \* the [header-analysis] line of the middleware
   cancelled |-> 0,             \* the pending timeout trackPageVisit cleared, by due time
   evicted |-> {},              \* the ips the cleanup loop deleted
   threw |-> FALSE]             \* the handler threw: Express answers 500

(***************************************************************************)
(* Visit Tracker.  A tracker state is [pv, tm, bv]: the pageVisits map,    *)
(* the armed timers and the per-session [bot-verdict] counters.            *)
(***************************************************************************)
Tracker == [pv |-> pageVisits, tm |-> timers, bv |-> botVerdicts]

NoCount == [lines |-> 0, assigns |-> 0]

\* clearTimeout(id): a null id (0) and a handle that already fired are no-ops
clearTimeout(tm, ip, id) == tm \ {<<ip, id>>}

\* Map.set / Map.delete
MapSet(m, k, v) == [x \in (DOMAIN m) \cup {k} |-> IF x = k THEN v ELSE m[x]]
MapDelete(m, ks) == [x \in (DOMAIN m) \ ks |-> m[x]]


\* the record trackPageVisit stores (server.js:215-221); timeoutId is the
\* handle's due time, 0 for null
NewVisit(t, id) ==
  [timestamp |-> t, completed |-> FALSE, botApiCalled |-> FALSE,
   timeoutId |-> id, finalVerdict |-> NullVerdict]

\* mutant: the guard with the completed flag inverted
deliverSkips_inverted(pv, ip) == ip \notin DOMAIN pv \/ ~pv[ip].completed

\* the guard of deliverBotVerdict: "Already completed or cleaned up"
deliverSkips(pv, ip) == ip \notin DOMAIN pv \/ pv[ip].completed

\* the [bot-verdict] line deliverBotVerdict writes, if any
deliverLog(pv, ip) ==
  IF deliverSkips(pv, ip) THEN NoLog
  ELSE [emitted |-> TRUE, botApiCalled |-> pv[ip].botApiCalled,
        challengeCompleted |-> pv[ip].completed]

deliverBotVerdict(T, ip, reason) ==
  IF deliverSkips(T.pv, ip) THEN T
  ELSE [T EXCEPT
          !.pv = [@ EXCEPT ![ip].completed = TRUE,
                           ![ip].finalVerdict = TimeoutVerdict(reason)],
          !.bv = [@ EXCEPT ![ip].lines = @ + 1, ![ip].assigns = @ + 1]]

\* mutant: the callback tests the flag the wrong way round
timeoutApplies_inverted(pv, ip) == ip \in DOMAIN pv /\ pv[ip].botApiCalled

\* the condition of the setTimeout callback of trackPageVisit
timeoutApplies(pv, ip) == ip \in DOMAIN pv /\ ~pv[ip].botApiCalled

timeoutCallback(T, ip) ==
  IF timeoutApplies(T.pv, ip) THEN deliverBotVerdict(T, ip, TimeoutReason) ELSE T

\* mutant: the cleanup loop deletes nothing
oldEntries_none(pv, t) == {}

\* the entries the cleanup loop of trackPageVisit deletes at time t
oldEntries(pv, t) == {x \in DOMAIN pv : t - pv[x].timestamp > VisitMaxAge}

\* mutant: the existing timeout of the ip is left armed
trackPageVisit_keepsPrior(T, ip, t) ==
  LET id  == t + VISIT_TTL
      pv2 == MapSet(T.pv, ip, NewVisit(t, id))
      old == oldEntries(pv2, t)
  IN  [pv |-> MapDelete(pv2, old),
       tm |-> (T.tm \cup {<<ip, id>>}) \ {<<x, pv2[x].timeoutId>> : x \in old},
       bv |-> [x \in IPs |-> IF x = ip \/ x \in old THEN NoCount ELSE T.bv[x]]]

trackPageVisit(T, ip, t) ==
  LET tm1 == IF ip \in DOMAIN T.pv /\ T.pv[ip].timeoutId # 0
               THEN clearTimeout(T.tm, ip, T.pv[ip].timeoutId)
               ELSE T.tm
      id  == t + VISIT_TTL
      tm2 == tm1 \cup {<<ip, id>>}
      pv2 == MapSet(T.pv, ip, NewVisit(t, id))
      old == oldEntries(pv2, t)
      tm3 == tm2 \ {<<x, pv2[x].timeoutId>> : x \in old}
  IN  [pv |-> MapDelete(pv2, old),
       tm |-> tm3,
       bv |-> [x \in IPs |-> IF x = ip \/ x \in old THEN NoCount ELSE T.bv[x]]]

\* mutant: the flag is set but the timeout is not cleared
markBotApiCalled_keepsTimer(T, ip) ==
  IF ip \in DOMAIN T.pv
    THEN [T EXCEPT !.pv = [@ EXCEPT ![ip].botApiCalled = TRUE]]
    ELSE T

\* mutant: the call also completes the visit
markBotApiCalled_completes(T, ip) ==
  IF ip \in DOMAIN T.pv
    THEN [T EXCEPT
            !.pv = [@ EXCEPT ![ip].botApiCalled = TRUE, ![ip].timeoutId = 0,
                             ![ip].completed = TRUE],
            !.tm = IF T.pv[ip].timeoutId # 0
                     THEN clearTimeout(@, ip, T.pv[ip].timeoutId) ELSE @]
    ELSE T

\* mutant: the call reopens a session that was completed
markBotApiCalled_reopens(T, ip) ==
  IF ip \in DOMAIN T.pv
    THEN [T EXCEPT
            !.pv = [@ EXCEPT ![ip].botApiCalled = TRUE, ![ip].timeoutId = 0,
                             ![ip].completed = FALSE],
            !.tm = IF T.pv[ip].timeoutId # 0
                     THEN clearTimeout(@, ip, T.pv[ip].timeoutId) ELSE @]
    ELSE T

markBotApiCalled(T, ip) ==
  IF ip \in DOMAIN T.pv
    THEN [T EXCEPT
            !.pv = [@ EXCEPT ![ip].botApiCalled = TRUE, ![ip].timeoutId = 0],
            !.tm = IF T.pv[ip].timeoutId # 0
                     THEN clearTimeout(@, ip, T.pv[ip].timeoutId) ELSE @]
    ELSE T

\* mutant: completion also stores a verdict of its own in finalVerdict
markVisitComplete_storesVerdict(T, ip) ==
  IF ip \in DOMAIN T.pv
    THEN [T EXCEPT !.pv = [@ EXCEPT ![ip].completed = TRUE,
                                    ![ip].finalVerdict =
                                       [NullVerdict EXCEPT !.verdict = "analysis"]]]
    ELSE T

markVisitComplete(T, ip) ==
  IF ip \in DOMAIN T.pv
    THEN [T EXCEPT !.pv = [@ EXCEPT ![ip].completed = TRUE]]
    ELSE T

\* Math.round(n / 1000) for n >= 0
RoundSeconds(n) == (n + 500) \div 1000

\* mutant: the elapsed-time answer is given before finalVerdict is read
getVisitVerdict_elapsedFirst(pv, ip, t) ==
  IF ip \notin DOMAIN pv
    THEN [NoLast EXCEPT !.verdict = "unknown",
                        !.reason = "No visit tracked for this IP"]
  ELSE IF ~pv[ip].botApiCalled /\ t - pv[ip].timestamp > VISIT_TTL
    THEN [NoLast EXCEPT !.verdict = "bot", !.code = 1006,
                        !.reason = "Never called /api/bot - no JS execution"]
  ELSE IF pv[ip].finalVerdict # NullVerdict
    THEN [NoLast EXCEPT !.verdict = pv[ip].finalVerdict.verdict,
                        !.code = pv[ip].finalVerdict.code,
                        !.reason = pv[ip].finalVerdict.reason,
                        !.body = pv[ip].finalVerdict]
  ELSE IF pv[ip].completed /\ pv[ip].botApiCalled
    THEN [NoLast EXCEPT !.verdict = "pending-analysis",
                        !.reason = "Visit complete, awaiting full analysis"]
  ELSE [NoLast EXCEPT !.verdict = "pending",
                      !.reason = "Waiting for /api/bot call"]

\* getVisitVerdict at time t: the object the status query answers
getVisitVerdict(pv, ip, t) ==
  IF ip \notin DOMAIN pv
    THEN [NoLast EXCEPT !.verdict = "unknown",
                        !.reason = "No visit tracked for this IP"]
  ELSE IF pv[ip].finalVerdict # NullVerdict
    THEN [NoLast EXCEPT !.verdict = pv[ip].finalVerdict.verdict,
                        !.code = pv[ip].finalVerdict.code,
                        !.reason = pv[ip].finalVerdict.reason,
                        !.body = pv[ip].finalVerdict]
  ELSE IF pv[ip].completed /\ pv[ip].botApiCalled
    THEN [NoLast EXCEPT !.verdict = "pending-analysis",
                        !.reason = "Visit complete, awaiting full analysis"]
  ELSE IF ~pv[ip].botApiCalled
    THEN IF t - pv[ip].timestamp > VISIT_TTL
           THEN [NoLast EXCEPT !.verdict = "bot", !.code = 1006,
                               !.reason = "Never called /api/bot - no JS execution"]
           ELSE [NoLast EXCEPT !.verdict = "pending",
                               !.reason = "Waiting for /api/bot call",
                               !.remaining =
                                  RoundSeconds(VISIT_TTL - (t - pv[ip].timestamp))]
  ELSE [NoLast EXCEPT !.verdict = "pending",
                      !.reason = "Bot API called, awaiting completion"]

(***************************************************************************)
(* Requests, as far as the classification middleware reads them.           *)
(***************************************************************************)
Paths ==
  { [api |-> FALSE, name |-> "/", ext |-> ""],
    [api |-> FALSE, name |-> "/index.html", ext |-> ".html"],
    [api |-> FALSE, name |-> "/assets/app.js", ext |-> ".js"],
    [api |-> TRUE, name |-> "/api/visit", ext |-> ""] }

SecFetchDests == {"undefined", "document"}
Accepts == {"undefined", "text/html,application/xhtml+xml", "*/*"}

PageRequests ==
  [method : {"GET", "POST"}, path : Paths, secFetchDest : SecFetchDests,
   accept : Accepts]

isStaticAsset(req) == req.path.ext # "" /\ req.path.ext # ".html"
isBotApiCall(req) == req.path.name = "/api/bot"
isApiCall(req) == req.path.api
acceptsHtml(req) == req.accept = "text/html,application/xhtml+xml"

\* mutant: the method is not looked at
isDocumentRequest_anyMethod(req) ==
  /\ ~isStaticAsset(req)
  /\ ~isApiCall(req)
  /\ (req.secFetchDest = "document" \/ acceptsHtml(req))

isDocumentRequest(req) ==
  /\ req.method = "GET"
  /\ ~isStaticAsset(req)
  /\ ~isApiCall(req)
  /\ (req.secFetchDest = "document" \/ acceptsHtml(req))

\* the branch the classification middleware takes, named by what its
\* [header-analysis] line carries: "pending" for a document request,
\* "evaluated" when it calls analyzeHeadersOnly, "none" when it logs nothing
middleware(req) ==
  IF isDocumentRequest(req) THEN "pending"
  ELSE IF ~isStaticAsset(req) /\ ~isBotApiCall(req) THEN "evaluated"
  ELSE "none"

\* the requests of the routes that are registered after the middleware
BotRequest ==
  [method |-> "POST", path |-> [api |-> TRUE, name |-> "/api/bot", ext |-> ""],
   secFetchDest |-> "undefined", accept |-> "*/*"]
VisitStatusRequest ==
  [method |-> "GET", path |-> [api |-> TRUE, name |-> "/api/visit-status", ext |-> ""],
   secFetchDest |-> "undefined", accept |-> "*/*"]
VisitRequest ==
  [method |-> "POST", path |-> [api |-> TRUE, name |-> "/api/visit", ext |-> ""],
   secFetchDest |-> "undefined", accept |-> "*/*"]
\* the requests of the routes that are registered before it
ChallengeRequest ==
  [method |-> "GET", path |-> [api |-> TRUE, name |-> "/api/challenge", ext |-> ""],
   secFetchDest |-> "undefined", accept |-> "*/*"]
VerifyRequest ==
  [method |-> "POST",
   path |-> [api |-> TRUE, name |-> "/api/challenge/verify", ext |-> ""],
   secFetchDest |-> "undefined", accept |-> "*/*"]

\* the layers of the application, in the order app.use, app.get and app.post
\* register them
Layers ==
  <<"express.json", "GET /api/challenge", "POST /api/challenge/verify",
    "middleware", "POST /api/visit", "GET /api/visit-status", "POST /api/bot",
    "express.static", "GET *">>

Position(layer) == CHOOSE i \in DOMAIN Layers : Layers[i] = layer

\* a route handler answers and does not call next(): a request reaches the
\* classification middleware only if its route is registered after it
reachesMiddleware(route) == Position("middleware") < Position(route)

\* the [header-analysis] line written while the request travels to its route
headerAnalysisOf(route, req) ==
  IF reachesMiddleware(route) THEN middleware(req) ELSE "none"

(***************************************************************************)
(* The browser bundle, as far as POST /api/bot reads it before it calls    *)
(* the Signal Evaluator.                                                   *)
(***************************************************************************)
\* the body { screen: {width}, navigator: {userAgent}, window, jsChallenge:
\* {valid} }, each key present only if its value is not undefined
MinimalBundle(width, userAgent, window, valid) ==
  LET put(o, k, x) == IF x = Undefined THEN o ELSE With(o, k, x)
      sub(k, x) == IF x = Undefined THEN Undefined ELSE With(EmptyObject, k, x)
  IN  put(put(put(put(EmptyObject,
        "screen", sub("width", width)),
        "navigator", sub("userAgent", userAgent)),
        "window", window),
        "jsChallenge", sub("valid", valid))

Bundles ==
  { MinimalBundle(width, userAgent, window, valid) :
      width \in {Undefined, Num(0), Num(1920)},
      userAgent \in {Undefined, Text("Mozilla/5.0 Chrome/120.0")},
      window \in {Undefined, EmptyObject},
      valid \in {Undefined, Bool(TRUE), Bool(FALSE)} }

hasEssentialData(b) ==
  /\ Gt(Get2(b, "screen", "width"), 0)
  /\ Truthy(Get2(b, "navigator", "userAgent"))
  /\ Truthy(Get(b, "window"))

\* a variant that accepts any truthy jsChallenge.valid
hasJsChallenge_truthy(b) == Truthy(Get2(b, "jsChallenge", "valid"))

hasJsChallenge(b) == StrictEq(Get2(b, "jsChallenge", "valid"), Bool(TRUE))

earlyRejectReason(b) ==
  IF ~hasEssentialData(b)
    THEN "Missing essential browser data (no JS execution)"
    ELSE "JS challenge not completed or failed"

(***************************************************************************)
(* Header Evaluator.  Request headers are an object from lower-case header *)
(* names to strings.                                                       *)
(***************************************************************************)
\* one entry of signals[], as addSignal pushes it; the reason is one of the
\* two texts the caller passes
headerSignal(name, detected, weight) ==
  [name |-> name, detected |-> detected, weight |-> weight,
   reason |-> IF detected THEN "failReason" ELSE "passReason"]

\* score after the addSignal calls: the weights of the detected entries
RECURSIVE scoreOf(_)
scoreOf(signals) ==
  IF signals = << >> THEN 0
  ELSE (IF Head(signals).detected THEN Head(signals).weight ELSE 0)
         + scoreOf(Tail(signals))

maxScore == 100

\* mutant: the score is not capped
normalizedScore_uncapped(score) == score

\* Math.min(score, maxScore)
normalizedScore(score) == IF score < maxScore THEN score ELSE maxScore

BotThreshold == 50
SuspiciousThreshold == 25

verdictOf(score) ==
  IF score >= BotThreshold THEN "bot"
  ELSE IF score >= SuspiciousThreshold THEN "suspicious"
  ELSE "human"

confidenceOf(score) ==
  IF score >= BotThreshold THEN "high"
  ELSE IF score >= SuspiciousThreshold THEN "medium"
  ELSE "low"

IsDetected(signal) == signal.detected
\* mutant: every signal counts as passed
IsPassed_any(signal) == TRUE

IsPassed(signal) == ~signal.detected

\* the object both evaluators return for their signals[]
assessment(signals) ==
  [verdict |-> verdictOf(normalizedScore(scoreOf(signals))),
   score |-> normalizedScore(scoreOf(signals)),
   maxScore |-> maxScore,
   code |-> 0,
   confidence |-> confidenceOf(normalizedScore(scoreOf(signals))),
   reason |-> "undefined",
   signals |-> SelectSeq(signals, IsDetected),
   allSignals |-> signals,
   totalChecks |-> Len(signals),
   flagged |-> Len(SelectSeq(signals, IsDetected)),
   passed |-> Len(SelectSeq(signals, IsPassed))]

\* mutant: only two crawlers are looked for
HeaderBotPatterns_crawlersOnly == <<"heritrix", "httrack">>

HeaderBotPatterns ==
  <<
    "python", "curl", "wget", "axios", "node-fetch", "go-http", "java/",
    "libwww", "httpunit", "nutch", "phpcrawl", "msnbot", "jyxobot",
    "fast-webcrawler", "biglotron", "teoma", "convera", "gigablast",
    "ia_archiver", "webmon", "httrack", "grub.org", "netresearchserver",
    "speedy", "fluffy", "findlink", "panscient", "ips-agent", "yanga",
    "cyberpatrol", "postrank", "page2rss", "linkdex", "ezooms", "heritrix",
    "findthatfile", "europarchive.org", "mappydata", "eright", "apercite",
    "scrapy", "mechanize", "phantom", "casper", "selenium", "webdriver",
    "chrome-lighthouse", "pingdom", "phantomjs", "headlesschrome", "httpie",
    "postman", "insomnia", "rest-client", "okhttp", "apache-http"
  >>

\* botPatterns.find(p => lower.includes(p)) found a pattern
matchesBotPattern(patterns, lower) ==
  \E i \in 1..Len(patterns) : Includes(lower, patterns[i])

\* the string of a header value, '' when the header is absent
StringOr(x) == IF Truthy(x) THEN x.v ELSE ""

analyzeHeadersOnly(headers) ==
  LET userAgent == StringOr(Get(headers, "user-agent"))
      userAgentLower == toLowerCase(userAgent)
      accept == StringOr(Get(headers, "accept"))
      nonBrowserAccept ==
        /\ accept # ""
        /\ ~Includes(accept, "text/html")
        /\ ~Includes(accept, "*/*")
      hasSecFetch ==
        Or(Or(Get(headers, "sec-fetch-dest"), Get(headers, "sec-fetch-mode")),
           Get(headers, "sec-fetch-site"))
  IN  assessment(<<
        headerSignal("noUserAgent", userAgent = "", 30),
        headerSignal("shortUserAgent", Len(userAgent) > 0 /\ Len(userAgent) < 20, 15),
        headerSignal("botUserAgent",
                     matchesBotPattern(HeaderBotPatterns, userAgentLower), 30),
        headerSignal("headlessUA", Includes(userAgentLower, "headless"), 25),
        headerSignal("noAcceptHeader", ~Truthy(Get(headers, "accept")), 10),
        headerSignal("nonBrowserAccept", nonBrowserAccept, 10),
        headerSignal("noAcceptLanguage", ~Truthy(Get(headers, "accept-language")), 15),
        headerSignal("noAcceptEncoding", ~Truthy(Get(headers, "accept-encoding")), 10),
        headerSignal("noSecFetch", ~Truthy(hasSecFetch), 15),
        headerSignal("noSecChUa", ~Truthy(Get(headers, "sec-ch-ua")), 8),
        headerSignal("noConnection", ~Truthy(Get(headers, "connection")), 5),
        headerSignal("noUpgradeInsecure",
                     ~Truthy(Get(headers, "upgrade-insecure-requests")), 5) >>)

(***************************************************************************)
(* Signal Evaluator.                                                       *)
(***************************************************************************)
\* the double 1.0471975511965979, Math.acos(0.5); every other number of
\* the model is an integer
AcosOfHalf == [t |-> "real", v |-> 0]

\* x?.length
Length(x) ==
  CASE x.t = "array" -> Num(x.v)
    [] x.t = "text" -> Num(Len(x.v))
    [] x.t = "object" -> Get(x, "length")
    [] OTHER -> Undefined

\* x.includes(sub) for a string or an array x
ValueIncludes(x, sub) == x.t = "text" /\ Includes(x.v, sub)

signal(name, detected, weight, category) ==
  [name |-> name, detected |-> detected, weight |-> weight,
   reason |-> IF detected THEN "failReason" ELSE "passReason",
   category |-> category]

SignalBotPatterns ==
  <<
    "python", "curl", "wget", "axios", "node-fetch", "go-http", "java/",
    "libwww", "httpunit", "nutch", "phpcrawl", "msnbot", "jyxobot",
    "fast-webcrawler", "biglotron", "teoma", "convera", "gigablast",
    "ia_archiver", "webmon", "httrack", "grub.org", "netresearchserver",
    "speedy", "fluffy", "findlink", "panscient", "ips-agent", "yanga",
    "cyberpatrol", "postrank", "page2rss", "linkdex", "ezooms", "heritrix",
    "findthatfile", "europarchive.org", "mappydata", "eright", "apercite",
    "scrapy", "mechanize", "phantom", "casper", "selenium", "webdriver",
    "chrome-lighthouse", "pingdom", "phantomjs", "headlesschrome"
  >>

\* the values analyzeBotSignals extracts before its first rule
\* a Signal Evaluator that reads no user agent from the bundle
navigatorUserAgent_empty(browserData) == Text("")

navigatorUserAgent(browserData) ==
  Or(Get2(browserData, "navigator", "userAgent"), Text(""))
navigatorPlatform(browserData) ==
  Or(Get2(browserData, "navigator", "platform"), Text(""))
navigatorVendor(browserData) ==
  Or(Get2(browserData, "navigator", "vendor"), Text(""))
webglRendererOf(browserData) ==
  Or(Or(Get2(browserData, "webgl", "unmaskedRenderer"),
        Get2(browserData, "webgl", "renderer")), Text(""))
webglVendorOf(browserData) ==
  Or(Or(Get2(browserData, "webgl", "unmaskedVendor"),
        Get2(browserData, "webgl", "vendor")), Text(""))
isChromeUA(browserData) == ValueIncludes(navigatorUserAgent(browserData), "Chrome")
isSafariUA(browserData) ==
  /\ ValueIncludes(navigatorUserAgent(browserData), "Safari")
  /\ ~isChromeUA(browserData)

\* analyzeBotSignals throws a TypeError: a method of String is called on a
\* value that does not have it
analysisThrows(browserData, headers) ==
  LET userAgent == navigatorUserAgent(browserData)
      platform == navigatorPlatform(browserData)
      vendor == navigatorVendor(browserData)
      timezone == Or(Get2(browserData, "timezone", "timezone"), Text(""))
      hasIncludes(x) == x.t \in {"text", "array"}
  IN  \/ ~hasIncludes(userAgent)                          \* userAgent.includes
      \/ platform.t # "text"                              \* platform.toLowerCase
      \/ userAgent.t # "text"                             \* userAgent.toLowerCase
      \/ webglRendererOf(browserData).t # "text"          \* webglRenderer.toLowerCase
      \/ webglVendorOf(browserData).t # "text"            \* webglVendor.toLowerCase
      \/ /\ Truthy(Get(headers, "accept-language"))       \* navigatorLanguage.split
         /\ Truthy(Get2(browserData, "navigator", "language"))
         /\ Get2(browserData, "navigator", "language").t # "text"
      \/ /\ Truthy(timezone)                              \* timezone.includes
         /\ Get2(browserData, "timezone", "offset") # Undefined
         /\ ~hasIncludes(timezone)
      \/ /\ Truthy(Get2(browserData, "userAgentData", "platform"))
         /\ Truthy(Get2(browserData, "navigator", "platform"))
         /\ Get2(browserData, "userAgentData", "platform").t # "text"
      \/ /\ isChromeUA(browserData) \/ isSafariUA(browserData)  \* vendor.includes
         /\ ~hasIncludes(vendor)

\* essential data reported missing whatever else the bundle lacks
essentialMissing_unguarded(hasData, noBrowserDataAtAll) == ~hasData

\* !hasScreenData && !noBrowserDataAtAll, and the same for the window, the
\* navigator and the timezone
essentialMissing(hasData, noBrowserDataAtAll) == ~hasData /\ ~noBrowserDataAtAll

\* signals[] when analyzeBotSignals runs to its end
botSignals(browserData, headers) ==
  LET nav(k) == Get2(browserData, "navigator", k)
      feat(k) == Get2(browserData, "features", k)
      scr(k) == Get2(browserData, "screen", k)
      win(k) == Get2(browserData, "window", k)
      userAgent == navigatorUserAgent(browserData).v
      userAgentLower == toLowerCase(userAgent)
      headerUA == StringOr(Get(headers, "user-agent"))
      isChrome == Includes(userAgent, "Chrome")
      isSafari == Includes(userAgent, "Safari") /\ ~isChrome
      isMobileUA ==
        \/ Includes(userAgentLower, "mobile")
        \/ Includes(userAgentLower, "android")
        \/ Includes(userAgentLower, "iphone")
        \/ Includes(userAgentLower, "ipad")
      platform == navigatorPlatform(browserData).v
      platformLower == toLowerCase(platform)
      vendor == navigatorVendor(browserData)
      jsChallenge == Get(browserData, "jsChallenge")
      hasScreenData == Gt(scr("width"), 0) /\ Gt(scr("height"), 0)
      hasWindowData == Gt(win("innerWidth"), 0) \/ Gt(win("outerWidth"), 0)
      hasNavigatorData == Truthy(And(nav("userAgent"), nav("language")))
      hasTimezoneData ==
        \/ Truthy(Get2(browserData, "timezone", "timezone"))
        \/ Get2(browserData, "timezone", "offset") # Undefined
      noBrowserDataAtAll ==
        /\ ~Truthy(Get(browserData, "screen"))
        /\ ~Truthy(Get(browserData, "window"))
        /\ ~Truthy(Get(browserData, "navigator"))
      pluginsLength ==
        Nullish(Nullish(feat("pluginsLength"),
                        Length(Get(browserData, "plugins"))), Num(0))
      webglRenderer == webglRendererOf(browserData).v
      webglRendererLower == toLowerCase(webglRenderer)
      webglVendorLower == toLowerCase(webglVendorOf(browserData).v)
      webglExtensions == Or(Get2(browserData, "webgl", "extensions"), Arr(0))
      screenWidth == Or(scr("width"), Num(0))
      screenHeight == Or(scr("height"), Num(0))
      innerWidth == Or(win("innerWidth"), Num(0))
      outerWidth == Or(win("outerWidth"), Num(0))
      innerHeight == Or(win("innerHeight"), Num(0))
      outerHeight == Or(win("outerHeight"), Num(0))
      hasBattery ==
        Truthy(Get(browserData, "battery")) /\ ~Truthy(Get2(browserData, "battery", "error"))
      hasMediaDevices ==
        /\ Truthy(Get(browserData, "mediaDevices"))
        /\ ~Truthy(Get2(browserData, "mediaDevices", "error"))
      device(k) == Or(Get2(browserData, "mediaDevices", k), Num(0))
      numeric(x) == x.t \in {"number", "boolean"}
      \* a + b + c === 0: a string, array or object operand makes a string
      totalDevicesIsZero ==
        /\ numeric(device("audioinput"))
        /\ numeric(device("audiooutput"))
        /\ numeric(device("videoinput"))
        /\ ToNumber(device("audioinput")) + ToNumber(device("audiooutput"))
             + ToNumber(device("videoinput")) = 0
      maxTouchPoints == Get2(browserData, "touch", "maxTouchPoints")
      voiceCount == Or(Get2(browserData, "speechVoices", "count"), Num(0))
      fontsCount == Or(Length(Get(browserData, "fonts")), Num(0))
      hasCanvas ==
        Truthy(Get2(browserData, "canvas", "hash")) /\ ~Truthy(Get2(browserData, "canvas", "error"))
      dpr == scr("devicePixelRatio")
      \* dpr < 0.5 on the integers of the model is dpr < 1
      unusualDPR == Truthy(dpr) /\ (Lt(dpr, 1) \/ Gt(dpr, 4))
      colorDepth == scr("colorDepth")
      navInconsistent ==
        /\ StrictEq(nav("appName"), Text("Netscape"))
        /\ ~StrictEq(nav("product"), Text("Gecko"))
      hasSecFetch == Or(Get(headers, "sec-fetch-dest"), Get(headers, "sec-fetch-mode"))
      uaMismatch ==
        /\ headerUA # ""
        /\ Truthy(nav("userAgent"))
        /\ ~StrictEq(Text(headerUA), nav("userAgent"))
      acceptLanguage == StringOr(Get(headers, "accept-language"))
      navigatorLanguage == Or(nav("language"), Text(""))
      langMismatch ==
        /\ acceptLanguage # ""
        /\ Truthy(navigatorLanguage)
        /\ toLowerCase(FirstPart(FirstPart(acceptLanguage, ","), "-"))
             # toLowerCase(FirstPart(navigatorLanguage.v, "-"))
      platformMismatch ==
        \/ Includes(userAgent, "Windows") /\ ~Includes(platformLower, "win")
        \/ Includes(userAgent, "Mac") /\ ~Includes(platformLower, "mac")
        \/ Includes(userAgent, "Linux") /\ ~Includes(platformLower, "linux") /\ ~isMobileUA
      timezone == Or(Get2(browserData, "timezone", "timezone"), Text(""))
      timezoneOffset == Get2(browserData, "timezone", "offset")
      tzInconsistent ==
        /\ Truthy(timezone)
        /\ timezoneOffset # Undefined
        /\ \/ ValueIncludes(timezone, "America/") /\ Lt(timezoneOffset, 0)
           \/ ValueIncludes(timezone, "Europe/") /\ Gt(timezoneOffset, 60)
      clientHintsMismatch ==
        /\ Truthy(Get2(browserData, "userAgentData", "platform"))
        /\ Truthy(nav("platform"))
        /\ Includes(platformLower, "win")
        /\ ~Includes(toLowerCase(Get2(browserData, "userAgentData", "platform").v), "win")
      vendorMismatch ==
        \/ isChrome /\ ~ValueIncludes(vendor, "Google")
        \/ ~isChrome /\ isSafari /\ ~ValueIncludes(vendor, "Apple")
      navigationStart == Get2(browserData, "performance", "navigationStart")
      loadEventEnd == Get2(browserData, "performance", "loadEventEnd")
      hasLoadTime == Truthy(navigationStart) /\ Truthy(loadEventEnd)
      loadTimeIsNaN == IsNaN(navigationStart) \/ IsNaN(loadEventEnd)
      loadTime == ToNumber(loadEventEnd) - ToNumber(navigationStart)
      mathAcos == Get2(browserData, "math", "acos")
      \* |mathAcos - 1.0471975511965979| > 0.0000001
      mathSuspicious == Truthy(mathAcos) /\ ~IsNaN(mathAcos) /\ mathAcos # AcosOfHalf
      hasWebGL2 ==
        Truthy(Get(browserData, "webgl2")) /\ ~Truthy(Get2(browserData, "webgl2", "error"))
  IN  <<signal("webdriver",
               \/ StrictEq(nav("webdriver"), Bool(TRUE))
               \/ StrictEq(feat("webdriver"), Bool(TRUE)), 30, "automation"),
        signal("phantom", Truthy(feat("phantom")), 30, "automation"),
        signal("nightmare", Truthy(feat("nightmare")), 30, "automation"),
        signal("selenium", Truthy(feat("selenium")), 30, "automation"),
        signal("domAutomation", Truthy(feat("domAutomation")), 30, "automation"),
        signal("jsChallengeFailed",
               ~StrictEq(Get(jsChallenge, "valid"), Bool(TRUE)), 35, "automation")>>
      \o (IF Truthy(Get(jsChallenge, "valid"))
            THEN <<signal("jsChallengeTimingSuspicious",
                          Gt(Get(jsChallenge, "solveTime"), 30000), 10, "timing")>>
            ELSE << >>)
      \o <<signal("noBrowserData", noBrowserDataAtAll, 50, "automation"),
           signal("noScreenData", essentialMissing(hasScreenData, noBrowserDataAtAll),
                  25, "browser-features"),
           signal("noWindowData", essentialMissing(hasWindowData, noBrowserDataAtAll),
                  20, "browser-features"),
           signal("noNavigatorData",
                  essentialMissing(hasNavigatorData, noBrowserDataAtAll),
                  25, "browser-features"),
           signal("noTimezoneData",
                  essentialMissing(hasTimezoneData, noBrowserDataAtAll),
                  15, "browser-features"),
           signal("noPlugins", StrictEq(pluginsLength, Num(0)), 15, "browser-features"),
           signal("noLanguages", ~Gt(Length(nav("languages")), 0), 15,
                  "browser-features")>>
      \o (IF isChrome
            THEN <<signal("missingChrome", ~Truthy(feat("windowChrome")), 20,
                          "consistency")>>
            ELSE << >>)
      \o <<signal("headlessUA", Includes(userAgentLower, "headless"), 25, "automation"),
           signal("noPermissionsAPI", ~Truthy(feat("permissionsQuery")), 10,
                  "browser-features"),
           signal("softwareRenderer",
                  \/ Includes(webglRendererLower, "swiftshader")
                  \/ Includes(webglRendererLower, "llvmpipe")
                  \/ Includes(webglRendererLower, "mesa"), 20, "webgl"),
           signal("noWebGLRenderer",
                  /\ webglRenderer = ""
                  /\ Truthy(Get(browserData, "webgl"))
                  /\ ~Truthy(Get2(browserData, "webgl", "error")), 10, "webgl"),
           signal("softwareVendor",
                  \/ Includes(webglVendorLower, "brian paul")
                  \/ Includes(webglVendorLower, "mesa"), 15, "webgl"),
           signal("noWebGLExtensions",
                  ~(webglExtensions.t = "array" /\ webglExtensions.v > 0), 8, "webgl"),
           signal("zeroScreenSize",
                  \/ StrictEq(screenWidth, Num(0))
                  \/ StrictEq(screenHeight, Num(0)), 15, "screen"),
           signal("defaultScreenSize",
                  /\ StrictEq(screenWidth, Num(800))
                  /\ StrictEq(screenHeight, Num(600)), 10, "screen"),
           signal("noWindowChrome",
                  /\ Gt(outerWidth, 0)
                  /\ Gt(innerWidth, 0)
                  /\ StrictEq(outerWidth, innerWidth)
                  /\ StrictEq(outerHeight, innerHeight), 10, "screen"),
           signal("noNotifications", ~Truthy(feat("notifications")), 5, "browser-features"),
           signal("noWebRTC", ~Truthy(feat("webRTC")), 8, "browser-features"),
           signal("noIndexedDB", ~Truthy(feat("indexedDB")), 8, "browser-features"),
           signal("noLocalStorage", ~Truthy(feat("localStorage")), 10, "browser-features"),
           signal("noSessionStorage", ~Truthy(feat("sessionStorage")), 10,
                  "browser-features"),
           signal("noBattery", ~hasBattery, 2, "browser-features"),
           signal("noMediaDevices", ~hasMediaDevices, 5, "browser-features")>>
      \o (IF hasMediaDevices
            THEN <<signal("zeroMediaDevices", totalDevicesIsZero, 8, "browser-features")>>
            ELSE << >>)
      \o (IF isMobileUA
            THEN <<signal("mobileNoTouch", StrictEq(maxTouchPoints, Num(0)), 15,
                          "consistency")>>
            ELSE << >>)
      \o (IF ~isMobileUA
            THEN <<signal("desktopTouchMismatch",
                          /\ Gt(maxTouchPoints, 0)
                          /\ ~Truthy(Get2(browserData, "touch", "touchEvent")), 5,
                          "consistency")>>
            ELSE << >>)
      \o <<signal("noSpeechVoices", StrictEq(voiceCount, Num(0)), 3, "browser-features")>>
      \o (IF isChrome
            THEN <<signal("noConnectionAPI", ~Truthy(Get(browserData, "connection")), 5,
                          "browser-features")>>
            ELSE << >>)
      \o <<signal("noFonts", StrictEq(fontsCount, Num(0)), 10, "browser-features"),
           signal("fewFonts", Gt(fontsCount, 0) /\ Lt(fontsCount, 5), 5,
                  "browser-features"),
           signal("noCanvasHash", ~hasCanvas, 8, "browser-features"),
           signal("audioError", Truthy(Get2(browserData, "audio", "error")), 5,
                  "browser-features")>>
      \o (IF isChrome
            THEN <<signal("noPerformanceMemory",
                          ~Truthy(Get2(browserData, "performance", "jsHeapSizeLimit")), 5,
                          "browser-features")>>
            ELSE << >>)
      \o <<signal("documentHidden",
                  StrictEq(Get2(browserData, "document", "hidden"), Bool(TRUE)), 8,
                  "browser-features"),
           signal("unusualDPR", unusualDPR, 5, "screen"),
           signal("lowColorDepth", Truthy(colorDepth) /\ Lt(colorDepth, 24), 5, "screen"),
           signal("navigatorInconsistency", navInconsistent, 5, "consistency"),
           signal("noGamepadAPI", ~Truthy(Get2(browserData, "gamepads", "supported")), 2,
                  "browser-features"),
           signal("keyboardAPIError", Truthy(Get2(browserData, "keyboard", "error")), 5,
                  "browser-features"),
           signal("noServiceWorker", ~Truthy(feat("serviceWorker")), 3, "browser-features"),
           signal("noWebAssembly", ~Truthy(feat("WebAssembly")), 5, "browser-features"),
           signal("noBluetooth", ~Truthy(feat("bluetooth")), 2, "browser-features"),
           signal("noUSB", ~Truthy(feat("usb")), 2, "browser-features"),
           signal("noCredentials", ~Truthy(feat("credentials")), 3, "browser-features"),
           signal("noAcceptLanguage", ~Truthy(Get(headers, "accept-language")), 10,
                  "headers"),
           signal("noAcceptHeader", ~Truthy(Get(headers, "accept")), 5, "headers"),
           signal("botUserAgent",
                  matchesBotPattern(SignalBotPatterns, toLowerCase(headerUA)), 25,
                  "headers"),
           signal("shortUserAgent", Len(headerUA) < 20, 15, "headers"),
           signal("noSecFetch", ~Truthy(hasSecFetch), 8, "headers")>>
      \o (IF isChrome
            THEN <<signal("noSecChUa", ~Truthy(Get(headers, "sec-ch-ua")), 8, "headers")>>
            ELSE << >>)
      \o <<signal("noConnectionHeader", ~Truthy(Get(headers, "connection")), 3, "headers"),
           signal("noCacheControl", ~Truthy(Get(headers, "cache-control")), 2, "headers"),
           signal("uaMismatch", uaMismatch, 20, "consistency"),
           signal("languageMismatch", langMismatch, 10, "consistency"),
           signal("platformMismatch", platformMismatch, 15, "consistency"),
           signal("timezoneInconsistent", tzInconsistent, 10, "consistency"),
           signal("clientHintsMismatch", clientHintsMismatch, 15, "consistency"),
           signal("vendorMismatch", vendorMismatch, 10, "consistency"),
           signal("productInconsistent", ~StrictEq(nav("product"), Text("Gecko")), 3,
                  "consistency"),
           signal("negativeLoadTime", hasLoadTime /\ ~loadTimeIsNaN /\ loadTime < 0, 20,
                  "timing"),
           signal("zeroLoadTime", hasLoadTime /\ ~loadTimeIsNaN /\ loadTime = 0, 15,
                  "timing"),
           signal("mathInconsistent", mathSuspicious, 10, "fingerprint"),
           signal("noWebGL2", ~hasWebGL2 /\ isChrome, 3, "webgl")>>

\* the analysis object of analyzeBotSignals when it does not throw
analyzeBotSignals(browserData, headers) == assessment(botSignals(browserData, headers))

(***************************************************************************)
(* Requests of the evaluator side.                                         *)
(***************************************************************************)
ChromeUA ==
  "Mozilla/5.0 (Windows NT 10.0; Win64; x64) AppleWebKit/537.36 (KHTML, like Gecko) Chrome/120.0.0.0 Safari/537.36"
HeadlessUA ==
  "Mozilla/5.0 (X11; Linux x86_64) AppleWebKit/537.36 (KHTML, like Gecko) HeadlessChrome/120.0.0.0 Safari/537.36"
iPhoneUA ==
  "Mozilla/5.0 (iPhone; CPU iPhone OS 17_2 like Mac OS X) AppleWebKit/605.1.15 (KHTML, like Gecko) Version/17.2 Mobile/15E148 Safari/604.1"
FirefoxUA ==
  "Mozilla/5.0 (X11; Linux x86_64; rv:121.0) Gecko/20100101 Firefox/121.0"

\* the values of the User-Agent and Accept headers; "" is an absent header
UserAgents == {"", "curl/8.1.2", "okhttp/4.9.3", ChromeUA, HeadlessUA}
AcceptValues == {"", "text/html,application/xhtml+xml", "*/*", "application/json"}

OptionalHeaderNames ==
  {"accept-language", "accept-encoding", "sec-fetch-dest", "sec-fetch-mode",
   "sec-fetch-site", "sec-ch-ua", "connection", "upgrade-insecure-requests",
   "cache-control"}

OptionalHeaderValue(k) ==
  CASE k = "accept-language" -> "en-US,en;q=0.9"
    [] k = "accept-encoding" -> "gzip, deflate, br"
    [] k = "sec-fetch-dest" -> "empty"
    [] k = "sec-fetch-mode" -> "cors"
    [] k = "sec-fetch-site" -> "same-origin"
    [] k = "sec-ch-ua" -> "Chromium;v=120"
    [] k = "connection" -> "keep-alive"
    [] k = "upgrade-insecure-requests" -> "1"
    [] k = "cache-control" -> "no-cache"

\* req.headers with the given User-Agent and Accept and the optional headers
\* named in present
Headers(userAgent, accept, present) ==
  Object([k \in present \cup (IF userAgent = "" THEN {} ELSE {"user-agent"})
                        \cup (IF accept = "" THEN {} ELSE {"accept"}) |->
            Text(CASE k = "user-agent" -> userAgent
                   [] k = "accept" -> accept
                   [] OTHER -> OptionalHeaderValue(k))])

\* the sets of optional headers: at most MaxAbsent of them absent, or at
\* most MaxAbsent of them present
HeaderFamilies ==
  {present \in SUBSET OptionalHeaderNames :
     \/ Cardinality(OptionalHeaderNames \ present) <= MaxAbsent
     \/ Cardinality(present) <= MaxAbsent}

HeaderSets ==
  {Headers(userAgent, accept, present) :
     userAgent \in UserAgents, accept \in AcceptValues, present \in HeaderFamilies}

\* what curl sends with -H 'Accept:' removed, and what Chrome sends with fetch()
CurlHeaders == Headers("curl/8.1.2", "", {})
BrowserHeaders == Headers(ChromeUA, "*/*", OptionalHeaderNames)

\* the bundle the collector of a desktop Chrome on Windows submits
BrowserBundle ==
  Object([
    navigator |-> Object([userAgent |-> Text(ChromeUA), platform |-> Text("Win32"),
                          vendor |-> Text("Google Inc."), language |-> Text("en-US"),
                          languages |-> Arr(2), appName |-> Text("Netscape"),
                          product |-> Text("Gecko"), webdriver |-> Bool(FALSE)]),
    features |-> Object([webdriver |-> Bool(FALSE), phantom |-> Bool(FALSE),
                         nightmare |-> Bool(FALSE), selenium |-> Bool(FALSE),
                         domAutomation |-> Bool(FALSE), pluginsLength |-> Num(5),
                         windowChrome |-> Bool(TRUE), permissionsQuery |-> Bool(TRUE),
                         notifications |-> Bool(TRUE), webRTC |-> Bool(TRUE),
                         indexedDB |-> Bool(TRUE), localStorage |-> Bool(TRUE),
                         sessionStorage |-> Bool(TRUE), serviceWorker |-> Bool(TRUE),
                         WebAssembly |-> Bool(TRUE), bluetooth |-> Bool(TRUE),
                         usb |-> Bool(TRUE), credentials |-> Bool(TRUE)]),
    jsChallenge |-> Object([valid |-> Bool(TRUE), solveTime |-> Num(12)]),
    screen |-> Object([width |-> Num(1920), height |-> Num(1080),
                       devicePixelRatio |-> Num(1), colorDepth |-> Num(24)]),
    window |-> Object([innerWidth |-> Num(1903), outerWidth |-> Num(1920),
                       innerHeight |-> Num(969), outerHeight |-> Num(1040)]),
    timezone |-> Object([timezone |-> Text("Europe/Stockholm"), offset |-> Num(-60)]),
    plugins |-> Arr(5),
    webgl |-> Object([unmaskedRenderer |-> Text("ANGLE (NVIDIA GeForce GTX 1080)"),
                      renderer |-> Text("WebKit WebGL"),
                      unmaskedVendor |-> Text("Google Inc. (NVIDIA)"),
                      vendor |-> Text("WebKit"), extensions |-> Arr(30)]),
    webgl2 |-> Object([version |-> Text("WebGL 2.0")]),
    battery |-> Object([charging |-> Bool(TRUE)]),
    mediaDevices |-> Object([audioinput |-> Num(1), audiooutput |-> Num(1),
                             videoinput |-> Num(1)]),
    touch |-> Object([maxTouchPoints |-> Num(0), touchEvent |-> Bool(FALSE)]),
    speechVoices |-> Object([count |-> Num(20)]),
    connection |-> Object([effectiveType |-> Text("4g")]),
    fonts |-> Arr(40),
    canvas |-> Object([hash |-> Text("a1b2c3")]),
    audio |-> Object([sampleRate |-> Num(44100)]),
    performance |-> Object([jsHeapSizeLimit |-> Num(2147483647),
                            navigationStart |-> Num(1000), loadEventEnd |-> Num(1850)]),
    document |-> Object([hidden |-> Bool(FALSE)]),
    gamepads |-> Object([supported |-> Bool(TRUE)]),
    keyboard |-> Object([layout |-> Text("en")]),
    userAgentData |-> Object([platform |-> Text("Windows")]),
    math |-> Object([acos |-> AcosOfHalf])])

\* the keys the Signal Evaluator reads, as <<key>> or <<object, key>>
BundlePaths ==
  {<<k>> : k \in DOMAIN BrowserBundle.v}
    \cup {<<k, j>> : k \in {"navigator"}, j \in DOMAIN BrowserBundle.v.navigator.v}
    \cup {<<k, j>> : k \in {"features"}, j \in DOMAIN BrowserBundle.v.features.v}
    \cup {<<k, j>> : k \in {"jsChallenge"}, j \in {"valid", "solveTime"}}
    \cup {<<k, j>> : k \in {"screen"}, j \in DOMAIN BrowserBundle.v.screen.v}
    \cup {<<k, j>> : k \in {"window"}, j \in DOMAIN BrowserBundle.v.window.v}
    \cup {<<k, j>> : k \in {"timezone"}, j \in {"timezone", "offset"}}
    \cup {<<k, j>> : k \in {"webgl"},
                     j \in (DOMAIN BrowserBundle.v.webgl.v) \cup {"error"}}
    \cup {<<k, j>> : k \in {"mediaDevices"},
                     j \in (DOMAIN BrowserBundle.v.mediaDevices.v) \cup {"error"}}
    \cup {<<k, j>> : k \in {"performance"}, j \in DOMAIN BrowserBundle.v.performance.v}
    \cup {<<"webgl2", "error">>, <<"battery", "error">>, <<"canvas", "hash">>,
          <<"canvas", "error">>, <<"audio", "error">>, <<"keyboard", "error">>,
          <<"touch", "maxTouchPoints">>, <<"touch", "touchEvent">>,
          <<"speechVoices", "count">>, <<"document", "hidden">>,
          <<"gamepads", "supported">>, <<"userAgentData", "platform">>,
          <<"math", "acos">>}

\* the JSON values a key is given: one of every type, and the strings and
\* numbers the rules of that key look for
JsonValues ==
  {Undefined, Null, Bool(TRUE), Bool(FALSE), Num(0), Num(7), Text(""),
   Text("mesa"), Arr(0), Arr(3), EmptyObject}

PathValues(path) ==
  JsonValues \cup
    CASE path = <<"navigator", "userAgent">> ->
           {Text(HeadlessUA), Text(iPhoneUA), Text(FirefoxUA), Text("curl/8.1.2")}
      [] path = <<"navigator", "platform">> -> {Text("MacIntel"), Text("Linux x86_64")}
      [] path = <<"navigator", "vendor">> -> {Text("Apple Computer, Inc.")}
      [] path = <<"navigator", "language">> -> {Text("de-DE")}
      [] path = <<"timezone", "timezone">> -> {Text("America/New_York")}
      [] path = <<"timezone", "offset">> -> {Num(300), Num(-300)}
      [] path = <<"jsChallenge", "solveTime">> -> {Num(30001)}
      [] path = <<"screen", "width">> -> {Num(800), Str(1920), Num(-1)}
      [] path = <<"screen", "height">> -> {Num(600)}
      [] path = <<"screen", "devicePixelRatio">> -> {Num(2), Num(5)}
      [] path = <<"screen", "colorDepth">> -> {Num(16)}
      [] path = <<"window", "innerWidth">> -> {Num(1920)}
      [] path = <<"window", "innerHeight">> -> {Num(1040)}
      [] path = <<"performance", "loadEventEnd">> -> {Num(1000), Num(900)}
      [] path = <<"webgl", "unmaskedRenderer">> -> {Text("Google SwiftShader")}
      [] path = <<"webgl", "unmaskedVendor">> -> {Text("Brian Paul")}
      [] path = <<"userAgentData", "platform">> -> {Text("macOS")}
      [] path = <<"math", "acos">> -> {Num(1)}
      [] OTHER -> {}

\* the bundle o with the value at path replaced by x; undefined removes the key
Replace(o, path, x) ==
  LET put(obj, k, y) == IF y = Undefined THEN Without(obj, k) ELSE With(obj, k, y)
  IN  IF Len(path) = 1 THEN put(o, path[1], x)
      ELSE IF Get(o, path[1]).t # "object" THEN o
      ELSE With(o, path[1], put(Get(o, path[1]), path[2], x))

\* the least bundle POST /api/bot hands to the Signal Evaluator
EssentialBundle ==
  MinimalBundle(Num(1920), Text(ChromeUA), EmptyObject, Bool(TRUE))

\* the request bodies: {} and [], the two bundles above, and each of them
\* with one of its values replaced
FullBundles ==
  {EmptyObject, Arr(0), BrowserBundle, EssentialBundle}
    \cup UNION { {Replace(o, path, x) :
                    o \in {BrowserBundle, EssentialBundle}, x \in PathValues(path)} :
                 path \in BundlePaths }

\* the headers POST /api/bot is sent with
BotHeaderSets == {BrowserHeaders, CurlHeaders}

(***************************************************************************)
(* Actions of the tracker side.                                            *)
(***************************************************************************)
SetTracker(T) ==
  /\ pageVisits' = T.pv
  /\ timers' = T.tm
  /\ botVerdicts' = T.bv

\* a request no route above the middleware answers and whose own handler
\* leaves the tracker alone (POST /api/visit, the static server, the
\* index.html fallback): the middleware is all that acts on the tracker
PageRequest(ip, req) ==
  /\ SetTracker(IF middleware(req) = "pending"
                  THEN trackPageVisit(Tracker, ip, now) ELSE Tracker)
  /\ last' = IF middleware(req) = "pending"
               THEN [NoLast EXCEPT !.op = "page", !.ip = ip, !.verdict = "pending",
                       !.headerAnalysis = "pending",
                       !.cancelled =
                          IF /\ ip \in DOMAIN pageVisits
                             /\ <<ip, pageVisits[ip].timeoutId>> \in timers
                            THEN pageVisits[ip].timeoutId ELSE 0,
                       !.evicted = oldEntries(MapSet(pageVisits, ip, NewVisit(now, 0)),
                                              now)]
               ELSE [NoLast EXCEPT !.op = "page", !.ip = ip,
                       !.headerAnalysis = middleware(req)]
  /\ UNCHANGED <<now, challenges, issued, redeemed, request, client>>

\* the setTimeout callback armed by trackPageVisit runs
TimerFires(ip, due) ==
  /\ <<ip, due>> \in timers
  /\ now >= due
  /\ SetTracker(timeoutCallback([Tracker EXCEPT !.tm = @ \ {<<ip, due>>}], ip))
  /\ last' = [NoLast EXCEPT !.op = "timer", !.ip = ip,
                !.botVerdictLog = IF timeoutApplies(pageVisits, ip)
                                    THEN deliverLog(pageVisits, ip) ELSE NoLog]
  /\ UNCHANGED <<now, challenges, issued, redeemed, request, client>>

\* POST /api/bot
ApiBot(ip, b) ==
  LET T1 == markBotApiCalled(Tracker, ip)
      reject == ~hasEssentialData(b) \/ ~hasJsChallenge(b)
  IN  /\ SetTracker(IF reject THEN T1 ELSE markVisitComplete(T1, ip))
      /\ last' = IF reject
                   THEN [NoLast EXCEPT !.op = "bot", !.ip = ip,
                           !.headerAnalysis = headerAnalysisOf("POST /api/bot", BotRequest),
                           !.verdict = "bot", !.code = 1005,
                           !.reason = earlyRejectReason(b),
                           !.body = EarlyRejectVerdict(earlyRejectReason(b))]
                   ELSE [NoLast EXCEPT !.op = "bot", !.ip = ip,
                           !.headerAnalysis = headerAnalysisOf("POST /api/bot", BotRequest),
                           !.verdict = "analysis", !.evaluated = TRUE]
      /\ UNCHANGED <<now, challenges, issued, redeemed, request, client>>

\* GET /api/visit-status
VisitStatus(ip) ==
  /\ last' = [getVisitVerdict(pageVisits, ip, now) EXCEPT
                !.op = "status", !.ip = ip,
                !.headerAnalysis = headerAnalysisOf("GET /api/visit-status", VisitStatusRequest)]
  /\ UNCHANGED <<now, pageVisits, timers, botVerdicts, challenges, issued, redeemed,
                 request, client>>

\* time passes to the next instant of the grid
Tick ==
  /\ \E t \in Instants :
       /\ t > now
       /\ \A u \in Instants : u > now => t <= u
       /\ now' = t
  /\ UNCHANGED <<pageVisits, timers, botVerdicts, challenges, issued, redeemed, last,
                 request, client>>

(***************************************************************************)
(* Challenge Store.                                                        *)
(***************************************************************************)
Operations == {"+", "*", "-"}
Operands == 0..(IF MaxOperand < OperandRange THEN MaxOperand ELSE OperandRange - 1)

\* mutant: the subtraction takes its operands in the wrong order
expectedAnswer_swapped(a, operation, b) ==
  CASE operation = "+" -> a + b
    [] operation = "*" -> a * b
    [] operation = "-" -> b - a

\* the switch of GET /api/challenge
expectedAnswer(a, operation, b) ==
  CASE operation = "+" -> a + b
    [] operation = "*" -> a * b
    [] operation = "-" -> a - b

\* the text `(function() { return ${a} ${operation} ${b}; })()`
challengeText(a, operation, b) == <<"(function() { return ", a, operation, b, "; })()">>

\* what eval() of that text gives the client
Eval(text) ==
  CASE text[3] = "+" -> text[2] + text[4]
    [] text[3] = "*" -> text[2] * text[4]
    [] text[3] = "-" -> text[2] - text[4]

\* the sweep of GET /api/challenge at time t
expiredChallenges(ch, t) == {id \in DOMAIN ch : t - ch[id].timestamp > CHALLENGE_TTL}

\* mutant: the used challenge is not deleted
deleteUsed_never(ch, id) == ch

\* "Delete used challenge"
deleteUsed(ch, id) == MapDelete(ch, {id})

\* mutant: the window includes its ends
timingValid_inclusive(timingProof, executionTime, timestamp) ==
  IF ~Truthy(timingProof) THEN timingProof
  ELSE Bool(/\ ~IsNaN(timingProof)
            /\ Abs(ToNumber(timingProof) - timestamp) <= TimingWindow
            /\ Gt(executionTime, 0)
            /\ Lt(executionTime, MaxExecutionTime))

\* timingProof && Math.abs(timingProof - timestamp) < 1000 &&
\*   executionTime > 0 && executionTime < 5000, with JavaScript's &&
timingValid(timingProof, executionTime, timestamp) ==
  IF ~Truthy(timingProof) THEN timingProof
  ELSE Bool(/\ ~IsNaN(timingProof)
            /\ Abs(ToNumber(timingProof) - timestamp) < TimingWindow
            /\ Gt(executionTime, 0)
            /\ Lt(executionTime, MaxExecutionTime))

\* the instants of the challenge side
ChallengeInstants == {Epoch} \cup { Epoch + CHALLENGE_TTL + c : c \in 0..MaxSkew }

Answers == {Num(n) : n \in (0 - MaxOperand)..(2 * MaxOperand)} \cup {Str(MaxOperand)}
\* the timingProof values sent: the instants, 0, and both sides of each end
\* of the window around the first instant
TimingProofs ==
  {Num(t) : t \in ChallengeInstants
                   \cup {0, Epoch - TimingWindow, (Epoch - TimingWindow) + 1,
                         (Epoch + TimingWindow) - 1, Epoch + TimingWindow}}
ExecutionTimes == {Num(0), Num(15), Num(MaxExecutionTime)}

\* GET /api/challenge.  The id is Math.random().toString(36).substring(2, 15):
\* an id no earlier challenge had.
ChallengeIssue(ip, id, a, operation, b) ==
  /\ id \notin DOMAIN issued
  /\ LET ch == MapSet(challenges, id,
                      [expectedAnswer |-> expectedAnswer(a, operation, b),
                       timestamp |-> now, ip |-> ip])
     IN  challenges' = MapDelete(ch, expiredChallenges(ch, now))
  /\ issued' = MapSet(issued, id,
                      [answer |-> Eval(challengeText(a, operation, b)),
                       timingChallenge |-> now, verified |-> FALSE])
  /\ last' = [NoLast EXCEPT !.op = "challenge", !.ip = ip, !.id = id,
                !.headerAnalysis = headerAnalysisOf("GET /api/challenge",
                                                    ChallengeRequest)]
  /\ UNCHANGED <<now, pageVisits, timers, botVerdicts, redeemed, request, client>>

\* the [header-analysis] line of a POST /api/challenge/verify
verifyAnalysis == headerAnalysisOf("POST /api/challenge/verify", VerifyRequest)

\* POST /api/challenge/verify (the caller's ip goes to the log line only)
ChallengeVerify(id, answer, timingProof, executionTime) ==
  /\ IF id \notin DOMAIN challenges
       THEN /\ last' = [NoLast EXCEPT !.op = "verify", !.id = id,
                          !.headerAnalysis = verifyAnalysis,
                          !.reason = "Challenge not found or expired"]
            /\ UNCHANGED <<challenges, redeemed>>
       ELSE /\ last' = [NoLast EXCEPT !.op = "verify", !.id = id,
                          !.headerAnalysis = verifyAnalysis,
                          !.found = TRUE,
                          !.valid = StrictEq(answer, Num(challenges[id].expectedAnswer)),
                          !.timingValid = timingValid(timingProof, executionTime,
                                                      challenges[id].timestamp),
                          !.solveTime = now - challenges[id].timestamp]
            /\ challenges' = deleteUsed(challenges, id)
            /\ redeemed' = redeemed \cup {id}
  /\ issued' = IF id \in DOMAIN issued
                 THEN [issued EXCEPT ![id].verified = TRUE] ELSE issued
  /\ UNCHANGED <<now, pageVisits, timers, botVerdicts, request, client>>

ChallengeTick ==
  /\ \E t \in ChallengeInstants :
       /\ t > now
       /\ \A u \in ChallengeInstants : u > now => t <= u
       /\ now' = t
  /\ UNCHANGED <<pageVisits, timers, botVerdicts, challenges, issued, redeemed, last,
                 request, client>>

NoRequest ==
  [route |-> "none", ip |-> "none", headers |-> EmptyObject, body |-> Undefined]

\* the client whose requests the evaluators are given
Client == "10.0.0.1"

(***************************************************************************)
(* Actions of the evaluator side.                                          *)
(***************************************************************************)
\* a request the middleware hands to the Header Evaluator: POST /api/visit
\* with the given headers, answered 204
HeaderRequest(ip, headers) ==
  LET analysis == analyzeHeadersOnly(headers)
  IN  /\ last' = [NoLast EXCEPT !.op = "visit", !.ip = ip,
                    !.headerAnalysis = headerAnalysisOf("POST /api/visit", VisitRequest),
                    !.verdict = analysis.verdict,
                    !.body = analysis]
      /\ UNCHANGED <<now, pageVisits, timers, botVerdicts, challenges, issued,
                     redeemed, request, client>>

\* POST /api/bot, with the answer of the Signal Evaluator in full
ApiBotAnalysis(ip, browserData, headers) ==
  LET T1 == markBotApiCalled(Tracker, ip)
      reject == ~hasEssentialData(browserData) \/ ~hasJsChallenge(browserData)
      throws == ~reject /\ analysisThrows(browserData, headers)
      analysis == analyzeBotSignals(browserData, headers)
      common == [NoLast EXCEPT !.op = "bot", !.ip = ip]
  IN  /\ SetTracker(IF reject \/ throws THEN T1 ELSE markVisitComplete(T1, ip))
      /\ last' = IF reject
                   THEN [common EXCEPT
                           !.verdict = "bot", !.code = 1005,
                           !.reason = earlyRejectReason(browserData),
                           !.body = EarlyRejectVerdict(earlyRejectReason(browserData))]
                 ELSE IF throws
                   THEN [common EXCEPT !.threw = TRUE]
                 ELSE [common EXCEPT
                         !.verdict = analysis.verdict,
                         !.evaluated = TRUE,
                         !.body = analysis]
      /\ UNCHANGED <<now, challenges, issued, redeemed, request, client>>

(***************************************************************************)
(* The collector of the page (App): collectBrowserData, the effect that    *)
(* starts the challenge and arms the 5 s timeout, and submitAnalysis.      *)
(* Each callback runs to completion before the next one starts.            *)
(***************************************************************************)
CHALLENGE_TIMEOUT_MS == 5000

\* the times the effect may run in one page load
MaxEffectRuns == 2

\* the App of a page load before its first effect
NoClient ==
  [browserData |-> "null",           \* useState(null), then the bundle
   analysisStatus |-> "collecting",
   hasReported |-> FALSE,            \* useRef(false)
   analysisComplete |-> FALSE,       \* useRef(false)
   timeout |-> "none",               \* the setTimeout handle: armed, cleared, fired
   due |-> 0,                        \* the time the timeout is due
   challenge |-> "none",             \* solveChallenge(): fetching, verifying, settled
   posts |-> << >>,                  \* the jsChallenge of each POST /api/bot sent
   response |-> "none",              \* of POST /api/bot: pending, received, failed
   effects |-> 0]                    \* the runs of the effect so far

\* mutant: no callback finds the analysis already submitted
alreadySubmitted_never(c) == FALSE

\* analysisComplete.current, the guard of submitAnalysis and of the three
\* callbacks
alreadySubmitted(c) == c.analysisComplete

\* submitAnalysis(dataWithChallenge) up to its first await: the guard, the
\* flag, the status and the fetch of POST /api/bot
submitAnalysis(c, jsChallenge) ==
  IF alreadySubmitted(c) THEN c
  ELSE [c EXCEPT !.analysisComplete = TRUE,
                 !.analysisStatus = "analyzing",
                 !.posts = Append(@, jsChallenge),
                 !.response = "pending"]

\* what a callback does after clearTimeout or in the timeout: return if the
\* analysis is complete, submit otherwise
submitUnlessComplete(c, jsChallenge) ==
  IF alreadySubmitted(c) THEN c ELSE submitAnalysis(c, jsChallenge)

\* clearTimeout(timeoutId): nothing to clear once the timeout has fired
clearClientTimeout(c) ==
  IF c.timeout = "armed" THEN [c EXCEPT !.timeout = "cleared"] ELSE c

ClientStep(c) ==
  /\ client' = c
  /\ UNCHANGED <<now, pageVisits, timers, botVerdicts, challenges, issued, redeemed,
                 last, request>>

\* the first effect: collectBrowserData() resolves
Collect ==
  /\ client.browserData = "null"
  /\ ClientStep([client EXCEPT !.browserData = "collected",
                               !.analysisStatus = "challenging"])

\* the effect on [browserData] runs: once past the hasReported guard it
\* starts solveChallenge() and arms the timeout
Effect ==
  /\ client.effects < MaxEffectRuns
  /\ ClientStep(
       IF client.hasReported \/ client.browserData = "null"
         THEN [client EXCEPT !.effects = @ + 1]
         ELSE [client EXCEPT !.effects = @ + 1,
                             !.hasReported = TRUE,
                             !.challenge = "fetching",
                             !.timeout = "armed",
                             !.due = now + CHALLENGE_TIMEOUT_MS])

\* GET /api/challenge answers, eval returns and the verify is sent
ChallengeFetched ==
  /\ client.challenge = "fetching"
  /\ ClientStep([client EXCEPT !.challenge = "verifying"])

\* solveChallenge() resolves, with the answer of the verify or with
\* { valid: false, error } from its catch, and the .then callback runs
ChallengeResolves(result) ==
  /\ \/ client.challenge = "verifying"
     \/ client.challenge = "fetching" /\ result = "failed"
  /\ ClientStep(submitUnlessComplete(
                  [clearClientTimeout(client) EXCEPT !.challenge = "settled"],
                  result))

\* solveChallenge() rejects (its catch block throws on a thrown value
\* without .message) and the .catch callback runs
ChallengeRejects ==
  /\ client.challenge \in {"fetching", "verifying"}
  /\ ClientStep(submitUnlessComplete(
                  [clearClientTimeout(client) EXCEPT !.challenge = "settled"],
                  "error"))

\* the callback of the 5 s timeout runs, at its due time or later
ClientTimeout ==
  /\ client.timeout = "armed"
  /\ now >= client.due
  /\ ClientStep(submitUnlessComplete([client EXCEPT !.timeout = "fired"],
                                     "timed out"))

\* the fetch of POST /api/bot settles: setBotAnalysis or the catch
AnalysisSettles(outcome) ==
  /\ client.response = "pending"
  /\ ClientStep([client EXCEPT !.response = outcome,
                               !.analysisStatus = "complete"])

ClientNext ==
  \/ Collect
  \/ Effect
  \/ ChallengeFetched
  \/ \E result \in {"valid", "invalid", "failed"} : ChallengeResolves(result)
  \/ ChallengeRejects
  \/ ClientTimeout
  \/ \E outcome \in {"received", "failed"} : AnalysisSettles(outcome)
  \/ Tick

(***************************************************************************)
(* analyzeBotSignals by itself, applied to a bundle and a set of headers.  *)
(***************************************************************************)
\* the browser bundle without screen, window and navigator
BareBundle ==
  Without(Without(Without(BrowserBundle, "screen"), "window"), "navigator")

\* the bundles analyzeBotSignals is applied to: the request bodies, and the
\* bundles without screen, window and navigator with one key replaced
AnalyzeBundles ==
  FullBundles
    \cup {BareBundle}
    \cup UNION { {Replace(o, path, x) :
                    o \in {BareBundle, EmptyObject}, x \in PathValues(path)} :
                 path \in {q \in BundlePaths : Len(q) = 1} }

AnalyzeInit ==
  /\ now = Epoch
  /\ client = NoClient
  /\ pageVisits = << >>
  /\ timers = {}
  /\ botVerdicts = [ip \in IPs |-> NoCount]
  /\ challenges = << >>
  /\ issued = << >>
  /\ redeemed = {}
  /\ last = NoLast
  /\ \E browserData \in AnalyzeBundles, headers \in BotHeaderSets :
       request = [route |-> "analyzeBotSignals", ip |-> Client,
                  headers |-> headers, body |-> browserData]

\* analyzeBotSignals(browserData, headers) returns or throws
Analyze(browserData, headers) ==
  /\ last' = IF analysisThrows(browserData, headers)
               THEN [NoLast EXCEPT !.op = "analysis", !.threw = TRUE]
               ELSE [NoLast EXCEPT !.op = "analysis", !.evaluated = TRUE,
                       !.verdict = analyzeBotSignals(browserData, headers).verdict,
                       !.body = analyzeBotSignals(browserData, headers)]
  /\ UNCHANGED <<now, pageVisits, timers, botVerdicts, challenges, issued,
                 redeemed, request, client>>

AnalyzeNext ==
  /\ last = NoLast
  /\ Analyze(request.body, request.headers)

AnalyzeSpec == AnalyzeInit /\ [][AnalyzeNext]_vars

Init ==
  /\ now = Epoch
  /\ client = NoClient
  /\ pageVisits = << >>
  /\ timers = {}
  /\ botVerdicts = [ip \in IPs |-> NoCount]
  /\ challenges = << >>
  /\ issued = << >>
  /\ redeemed = {}
  /\ last = NoLast
  /\ request = NoRequest

Next ==
  \/ \E ip \in IPs, req \in PageRequests : PageRequest(ip, req)
  \/ \E ip \in IPs, due \in Instants : TimerFires(ip, due)
  \/ \E ip \in IPs, b \in Bundles : ApiBot(ip, b)
  \/ \E ip \in IPs : VisitStatus(ip)
  \/ Tick

Spec == Init /\ [][Next]_vars

\* one page load of the collector
ClientSpec == Init /\ [][ClientNext]_vars

ChallengeNext ==
  \/ \E ip \in IPs, id \in ChallengeIds, a \in Operands, operation \in Operations,
        b \in Operands : ChallengeIssue(ip, id, a, operation, b)
  \/ \E id \in ChallengeIds, answer \in Answers,
        timingProof \in TimingProofs, executionTime \in ExecutionTimes :
          ChallengeVerify(id, answer, timingProof, executionTime)
  \/ ChallengeTick

ChallengeSpec == Init /\ [][ChallengeNext]_vars

\* GET / of a browser, as scenario "document-only fetch" sends it
DocumentOnlyRequest ==
  [method |-> "GET", path |-> [api |-> FALSE, name |-> "/", ext |-> ""],
   secFetchDest |-> "document", accept |-> "text/html,application/xhtml+xml"]

\* a request has arrived
EvaluatorInit ==
  /\ now = Epoch
  /\ client = NoClient
  /\ pageVisits = << >>
  /\ timers = {}
  /\ botVerdicts = [ip \in IPs |-> NoCount]
  /\ challenges = << >>
  /\ issued = << >>
  /\ redeemed = {}
  /\ last = NoLast
  /\ \/ \E headers \in HeaderSets :
          request = [route |-> "POST /api/visit", ip |-> Client,
                     headers |-> headers, body |-> EmptyObject]
     \/ \E browserData \in FullBundles, headers \in BotHeaderSets :
          request = [route |-> "POST /api/bot", ip |-> Client,
                     headers |-> headers, body |-> browserData]
     \/ \E headers \in HeaderSets :
          request = [route |-> "POST /api/bot", ip |-> Client,
                     headers |-> headers, body |-> BrowserBundle]
     \/ request = [route |-> "express.static", ip |-> Client,
                   req |-> DocumentOnlyRequest, body |-> Undefined]

\* the request is served; after a document request that nothing follows,
\* time passes, the deadline callback runs and the status is asked for
EvaluatorNext ==
  \/ /\ last = NoLast
     /\ \/ /\ request.route = "POST /api/visit"
           /\ HeaderRequest(request.ip, request.headers)
        \/ /\ request.route = "POST /api/bot"
           /\ ApiBotAnalysis(request.ip, request.body, request.headers)
        \/ /\ request.route = "express.static"
           /\ PageRequest(request.ip, request.req)
  \/ /\ last # NoLast
     /\ request.route = "express.static"
     /\ \/ Tick
        \/ \E due \in Instants : TimerFires(request.ip, due)
        \/ VisitStatus(request.ip)

EvaluatorSpec == EvaluatorInit /\ [][EvaluatorNext]_vars

(***************************************************************************)
(* A POST /api/challenge/verify in flight: challenges are issued, then the *)
(* request is answered.                                                    *)
(***************************************************************************)
\* the bodies { challengeId, answer, timingProof, executionTime }, the last
\* two keys present or not
VerifyBodies ==
  { Object([challengeId |-> Text(id), answer |-> answer,
            timingProof |-> timingProof, executionTime |-> executionTime]) :
      id \in ChallengeIds, answer \in Answers,
      timingProof \in TimingProofs \cup {Undefined},
      executionTime \in ExecutionTimes \cup {Undefined} }

VerifyInit ==
  /\ now = Epoch
  /\ client = NoClient
  /\ pageVisits = << >>
  /\ timers = {}
  /\ botVerdicts = [ip \in IPs |-> NoCount]
  /\ challenges = << >>
  /\ issued = << >>
  /\ redeemed = {}
  /\ last = NoLast
  /\ \E body \in VerifyBodies :
       request = [route |-> "POST /api/challenge/verify", ip |-> Client,
                  headers |-> BrowserHeaders, body |-> body]

VerifyNext ==
  /\ last.op # "verify"
  /\ \/ \E id \in ChallengeIds, a \in Operands, operation \in Operations,
           b \in Operands : ChallengeIssue(request.ip, id, a, operation, b)
     \/ ChallengeVerify(Get(request.body, "challengeId").v,
                        Get(request.body, "answer"),
                        Get(request.body, "timingProof"),
                        Get(request.body, "executionTime"))

VerifySpec == VerifyInit /\ [][VerifyNext]_vars

(***************************************************************************)
(* The application as a router: a request arrives, travels the layers to   *)
(* its route and is answered.  The clock stands still.                     *)
(***************************************************************************)
\* the requests, by the route that answers them; req is what the
\* classification middleware reads of the request
RouterRequests ==
  { [route |-> "express.static", ip |-> ip, req |-> req, body |-> Undefined] :
      ip \in IPs, req \in PageRequests }
    \cup { [route |-> "POST /api/bot", ip |-> ip, req |-> BotRequest, body |-> b] :
             ip \in IPs, b \in {EmptyObject, EssentialBundle} }
    \cup { [route |-> "GET /api/visit-status", ip |-> ip, req |-> VisitStatusRequest,
            body |-> Undefined] : ip \in IPs }
    \cup { [route |-> "GET /api/challenge", ip |-> Client, req |-> ChallengeRequest,
            body |-> Undefined] }

\* a request arrives once the one before it is answered
Arrive(r) ==
  /\ request.route = "none" \/ last.op # "none"
  /\ request' = r
  /\ last' = NoLast
  /\ UNCHANGED <<now, pageVisits, timers, botVerdicts, challenges, issued, redeemed, client>>

\* the request is answered by its route
Serve ==
  /\ request.route # "none"
  /\ last.op = "none"
  /\ \/ /\ request.route = "express.static"
        /\ PageRequest(request.ip, request.req)
     \/ /\ request.route = "POST /api/bot"
        /\ ApiBot(request.ip, request.body)
     \/ /\ request.route = "GET /api/visit-status"
        /\ VisitStatus(request.ip)
     \/ /\ request.route = "GET /api/challenge"
        /\ \E id \in ChallengeIds, a \in Operands, operation \in Operations,
              b \in Operands : ChallengeIssue(request.ip, id, a, operation, b)

RouterNext ==
  \/ \E r \in RouterRequests : Arrive(r)
  \/ Serve

RouterSpec == Init /\ [][RouterNext]_vars

(***************************************************************************)
(* Steps and states the properties speak about.                            *)
(***************************************************************************)
\* the step is a POST /api/bot of ip
BotStep(ip) == last'.op = "bot" /\ last'.ip = ip /\ now' = now
\* the step is the deadline callback of a timer armed for ip
TimerStep(ip) == last'.op = "timer" /\ last'.ip = ip /\ now' = now
\* the step is a document request of ip (trackPageVisit replaces its session)
DocumentStep(ip) ==
  last'.op = "page" /\ last'.ip = ip /\ last'.verdict = "pending" /\ now' = now
\* the step is a GET /api/visit-status of ip
StatusStep(ip) == last'.op = "status" /\ last'.ip = ip /\ now' = now
\* the step is a POST /api/challenge/verify of id
VerifyStep(id) == last'.op = "verify" /\ last'.id = id /\ now' = now

Tracked(ip) == ip \in DOMAIN pageVisits
\* the deadline timer of ip's session is still pending
TimerPending(ip) == <<ip, pageVisits[ip].timestamp + VISIT_TTL>> \in timers
\* the timer decided ip's session: completed with the frozen 1006 verdict
TimedOut(ip) ==
  /\ Tracked(ip)
  /\ pageVisits[ip].completed
  /\ pageVisits[ip].finalVerdict = TimeoutVerdict(TimeoutReason)

(***************************************************************************)
(* C1                                                                      *)
(***************************************************************************)
\* C1: whichever of the deadline timer and POST /api/bot runs first decides
\* the session and the other is a no-op: a POST /api/bot after the timer
\* froze the 1006 verdict changes no field of the session and delivers no
\* verdict, and a timer firing after POST /api/bot delivers nothing.
C1_SecondPathIsNoOp ==
  [][\A ip \in IPs :
       /\ (TimedOut(ip) /\ BotStep(ip))
            => /\ pageVisits'[ip] = pageVisits[ip]
               /\ last'.verdict = "none"
       /\ (Tracked(ip) /\ pageVisits[ip].botApiCalled /\ TimerStep(ip))
            => /\ pageVisits' = pageVisits
               /\ ~last'.botVerdictLog.emitted]_vars

(***************************************************************************)
(* C2                                                                      *)
(***************************************************************************)
\* C2: the deadline timer never delivers the 1006 verdict for a session
\* whose botApiCalled is already true.  Stated as the spec states it: the
\* deadline never even fires on such a session (markBotApiCalled cleared
\* it), and no [bot-verdict] line is written with botApiCalled true.
C2_NoTimeoutAfterAnalysisRequested ==
  [][\A ip \in IPs :
       (Tracked(ip) /\ pageVisits[ip].botApiCalled)
         => /\ ~TimerStep(ip)
            /\ botVerdicts'[ip].lines <= botVerdicts[ip].lines
            /\ ~(last'.botVerdictLog.emitted /\ last'.botVerdictLog.botApiCalled)]_vars

\* a session whose analysis was requested outlives its deadline undelivered
C2_Witness ==
  \E ip \in IPs :
    /\ Tracked(ip)
    /\ pageVisits[ip].botApiCalled
    /\ now > pageVisits[ip].timestamp + VISIT_TTL
    /\ pageVisits[ip].finalVerdict = NullVerdict
    /\ botVerdicts[ip].lines = 0

(***************************************************************************)
(* C3                                                                      *)
(***************************************************************************)
\* C3: per session at most one [bot-verdict] line is written and
\* finalVerdict is assigned at most once, and a document-only session
\* (no POST /api/bot) whose deadline callback has run has exactly one line.
C3_VerdictAtMostOnce ==
  \A ip \in IPs :
    /\ botVerdicts[ip].lines <= 1
    /\ botVerdicts[ip].assigns <= 1
    /\ (Tracked(ip) /\ ~pageVisits[ip].botApiCalled /\ ~TimerPending(ip))
         => botVerdicts[ip].lines = 1

\* a document-only session after its deadline, with its one line
C3_Witness ==
  \E ip \in IPs :
    /\ Tracked(ip)
    /\ ~pageVisits[ip].botApiCalled
    /\ ~TimerPending(ip)
    /\ botVerdicts[ip] = [lines |-> 1, assigns |-> 1]
    /\ last.op = "status"

(***************************************************************************)
(* C4                                                                      *)
(***************************************************************************)
\* some step after the document GET is missing for ip's session: no
\* challenge was requested, none was verified, or no analysis was submitted
MissingStep(ip) ==
  \/ DOMAIN issued = {}
  \/ redeemed = {}
  \/ ~pageVisits[ip].botApiCalled

\* C4 as claimed: once the 5 s deadline of a session is over (reached, and
\* its timer no longer pending), a session with any step missing has the
\* 1006 verdict.
C4_AnyMissingStepTimesOut ==
  \A ip \in IPs :
    (/\ Tracked(ip)
     /\ now >= pageVisits[ip].timestamp + VISIT_TTL
     /\ ~TimerPending(ip)
     /\ MissingStep(ip))
      => pageVisits[ip].finalVerdict.code = 1006

\* C4 as amended: a session whose analysis submission (POST /api/bot) is
\* missing either still has its deadline timer pending, due 5 s after its
\* start, or has been completed with the 1006 verdict and one [bot-verdict]
\* line; the challenge steps play no part.
C4_MissingAnalysisTimesOut ==
  \A ip \in IPs :
    (Tracked(ip) /\ ~pageVisits[ip].botApiCalled)
      => \/ TimerPending(ip) /\ ~pageVisits[ip].completed
         \/ /\ TimedOut(ip)
            /\ pageVisits[ip].finalVerdict.code = 1006
            /\ botVerdicts[ip].lines = 1

\* the deadline of a session without analysis has fired and produced 1006
C4_Witness ==
  \E ip \in IPs :
    /\ TimedOut(ip)
    /\ ~pageVisits[ip].botApiCalled
    /\ last.op = "timer" /\ last.ip = ip /\ last.botVerdictLog.emitted

(***************************************************************************)
(* C5                                                                      *)
(***************************************************************************)
\* C5: once finalVerdict is set, no step other than a document request of
\* that ip (replacement) or the eviction of the session changes it.
C5_FinalVerdictFrozen ==
  [][\A ip \in IPs :
       (/\ Tracked(ip)
        /\ pageVisits[ip].finalVerdict # NullVerdict
        /\ ~DocumentStep(ip)
        /\ ip \in DOMAIN pageVisits')
         => pageVisits'[ip].finalVerdict = pageVisits[ip].finalVerdict]_vars

\* a POST /api/bot ran its analysis on a session that had timed out
C5_Witness ==
  /\ last.op = "bot"
  /\ last.evaluated
  /\ TimedOut(last.ip)
  /\ pageVisits[last.ip].botApiCalled

C7_AnalysisSetsFinalVerdict ==
  (last.op = "bot" /\ last.evaluated /\ Tracked(last.ip))
    => /\ pageVisits[last.ip].finalVerdict # NullVerdict
       /\ pageVisits[last.ip].finalVerdict.code # 1006

\* C7 as amended: a POST /api/bot that ran the Signal Evaluator marks the
\* tracked session completed and analysis_requested and leaves finalVerdict
\* as it was: only the deadline sets finalVerdict, so it is null or the
\* 1006 verdict.
C7_AnalysisLeavesFinalVerdict ==
  [][\A ip \in IPs :
       (Tracked(ip) /\ BotStep(ip) /\ last'.evaluated)
         => /\ pageVisits'[ip].finalVerdict = pageVisits[ip].finalVerdict
            /\ pageVisits'[ip].finalVerdict \in {NullVerdict, TimeoutVerdict(TimeoutReason)}
            /\ pageVisits'[ip].completed
            /\ pageVisits'[ip].botApiCalled]_vars

\* a completed analysis on a session with no frozen verdict
C7_Witness ==
  /\ last.op = "bot"
  /\ last.evaluated
  /\ Tracked(last.ip)
  /\ pageVisits[last.ip].completed
  /\ pageVisits[last.ip].finalVerdict = NullVerdict

(***************************************************************************)
(* C8                                                                      *)
(***************************************************************************)
NotFoundReason == "Challenge not found or expired"

\* C8: a verify on a stored id deletes it whatever the answer, and every
\* later verify of that id answers valid:false, "Challenge not found or
\* expired".
C8_RedeemableOnce ==
  [][\A id \in ChallengeIds :
       VerifyStep(id)
         => /\ id \notin DOMAIN challenges'
            /\ id \in redeemed
                 => /\ ~last'.found
                    /\ ~last'.valid
                    /\ last'.reason = NotFoundReason]_vars

\* a second verify of an id that was redeemed
C8_Witness ==
  /\ last.op = "verify"
  /\ last.id \in redeemed
  /\ ~last.found
  /\ last.reason = NotFoundReason

(***************************************************************************)
(* C9                                                                      *)
(***************************************************************************)
\* C9: a verify arriving more than 60 s after the challenge was issued,
\* with the right answer and timing proof, answers "Challenge not found or
\* expired".
C9_ExpiredIsAbsent ==
  [][\A id \in DOMAIN issued :
       (/\ now - issued[id].timingChallenge > CHALLENGE_TTL
        /\ \E et \in ExecutionTimes :
             ChallengeVerify(id, Num(issued[id].answer),
                             Num(issued[id].timingChallenge), et))
         => (~last'.found /\ last'.reason = NotFoundReason)]_vars

(***************************************************************************)
(* C10                                                                     *)
(***************************************************************************)
\* an executionTime strictly between 0 and 5000
GoodExecutionTimes ==
  {et \in ExecutionTimes : ToNumber(et) > 0 /\ ToNumber(et) < MaxExecutionTime}

\* the verify an honest collector sends for id
HonestVerify(id) ==
  \E et \in GoodExecutionTimes :
    ChallengeVerify(id, Num(issued[id].answer), Num(issued[id].timingChallenge), et)

\* C10 as claimed: the first verify of an issued challenge that carries the
\* value of the returned expression, the issued timestamp and an
\* executionTime in (0, 5000) answers valid:true, timingValid:true.
C10_RoundTrip ==
  [][\A id \in DOMAIN issued :
       (~issued[id].verified /\ HonestVerify(id))
         => (last'.valid /\ last'.timingValid = Bool(TRUE))]_vars

\* C10 as amended: the stored expected answer equals the value of the
\* returned expression, and such a verify answers valid:true,
\* timingValid:true as long as the challenge is still stored.
C10_RoundTripWhileStored ==
  [][\A id \in DOMAIN challenges :
       /\ challenges[id].expectedAnswer = issued[id].answer
       /\ challenges[id].timestamp = issued[id].timingChallenge
       /\ HonestVerify(id)
            => /\ last'.found
               /\ last'.valid
               /\ last'.timingValid = Bool(TRUE)]_vars

\* an honest verify succeeded
C10_Witness ==
  /\ last.op = "verify"
  /\ last.found
  /\ last.valid
  /\ last.timingValid = Bool(TRUE)
  /\ last.id \in redeemed

(***************************************************************************)
(* C11                                                                     *)
(***************************************************************************)
\* the sessions older than 60 s at the current instant
Stale(pv) == {x \in DOMAIN pv : now - pv[x].timestamp > VisitMaxAge}

\* C11 as claimed: after any tracker operation (open, POST /api/bot, status
\* query) no session older than 60 s remains in pageVisits, and a status
\* query does not report one.
C11_CollectedOnAnyTouch ==
  [][\A ip \in IPs :
       (DocumentStep(ip) \/ BotStep(ip) \/ StatusStep(ip))
         => /\ Stale(pageVisits') = {}
            /\ (StatusStep(ip) /\ ip \in Stale(pageVisits))
                 => last'.verdict = "unknown"]_vars

\* C11 as amended: a document request deletes every session older than 60 s
\* together with its timer, so none remains after it; POST /api/bot, the
\* status query and the timer callback delete no session.
C11_CollectedOnOpen ==
  [][\A ip \in IPs :
       /\ DocumentStep(ip)
            => /\ Stale(pageVisits') = {}
               /\ last'.evicted = Stale(pageVisits) \ {ip}
               /\ \A x \in last'.evicted :
                    /\ x \notin DOMAIN pageVisits'
                    /\ \A due \in Instants : <<x, due>> \notin timers'
       /\ (BotStep(ip) \/ StatusStep(ip) \/ TimerStep(ip))
            => DOMAIN pageVisits' = DOMAIN pageVisits]_vars

\* a document request has just evicted a session older than 60 s
C11_Witness ==
  /\ last.op = "page"
  /\ last.verdict = "pending"
  /\ Tracked(last.ip)
  /\ last.evicted # {}
  /\ last.evicted \cap DOMAIN pageVisits = {}
  /\ now - pageVisits[last.ip].timestamp = 0

(***************************************************************************)
(* C12                                                                     *)
(***************************************************************************)
\* C12: at most one timer is armed per ip, and it is the one of the ip's
\* current session, due 5 s after that session's start; a document request
\* leaves exactly the new session's timer armed; and the callback delivers
\* the 1006 verdict to a session no earlier than 5 s after its own start.
C12_TimerBelongsToSession ==
  [][\A ip \in IPs :
       /\ Cardinality({tmr \in timers' : tmr[1] = ip}) <= 1
       /\ \A tmr \in timers' :
            tmr[1] = ip
              => /\ ip \in DOMAIN pageVisits'
                 /\ pageVisits'[ip].timeoutId = tmr[2]
                 /\ tmr[2] = pageVisits'[ip].timestamp + VISIT_TTL
       /\ DocumentStep(ip)
            => {tmr \in timers' : tmr[1] = ip} = {<<ip, now + VISIT_TTL>>}
       /\ (TimerStep(ip) /\ last'.botVerdictLog.emitted)
            => /\ now - pageVisits[ip].timestamp >= VISIT_TTL
               /\ pageVisits'[ip].timestamp = pageVisits[ip].timestamp]_vars

\* a document request has just replaced an older session whose timer was
\* pending: that timer is gone and the new session's timer is armed
C12_Witness ==
  /\ last.op = "page"
  /\ last.verdict = "pending"
  /\ Tracked(last.ip)
  /\ pageVisits[last.ip].timestamp = now
  /\ last.cancelled # 0
  /\ last.cancelled < now + VISIT_TTL
  /\ <<last.ip, last.cancelled>> \notin timers
  /\ <<last.ip, now + VISIT_TTL>> \in timers

(***************************************************************************)
(* C13                                                                     *)
(***************************************************************************)
\* C13: GET /api/visit-status answers "unknown" for an ip without session;
\* else the frozen finalVerdict if there is one; else "pending-analysis" if
\* the session is completed and analysis was requested; else bot / 1006 if
\* analysis was not requested and more than 5 s have elapsed; else a
\* pending verdict.
C13_StatusCascade ==
  [][\A ip \in IPs :
       StatusStep(ip)
         => IF ~Tracked(ip)
              THEN last'.verdict = "unknown"
            ELSE IF pageVisits[ip].finalVerdict # NullVerdict
              THEN /\ last'.body = pageVisits[ip].finalVerdict
                   /\ last'.verdict = pageVisits[ip].finalVerdict.verdict
                   /\ last'.code = pageVisits[ip].finalVerdict.code
                   /\ last'.reason = pageVisits[ip].finalVerdict.reason
            ELSE IF pageVisits[ip].completed /\ pageVisits[ip].botApiCalled
              THEN last'.verdict = "pending-analysis" /\ last'.code = 0
            ELSE IF /\ ~pageVisits[ip].botApiCalled
                    /\ now - pageVisits[ip].timestamp > VISIT_TTL
              THEN last'.verdict = "bot" /\ last'.code = 1006
            ELSE last'.verdict = "pending" /\ last'.code = 0]_vars

\* a status query answered from a frozen verdict although the session's
\* analysis was requested afterwards and more than 5 s have elapsed
C13_Witness ==
  /\ last.op = "status"
  /\ TimedOut(last.ip)
  /\ pageVisits[last.ip].botApiCalled
  /\ now - pageVisits[last.ip].timestamp > VISIT_TTL
  /\ last.body = TimeoutVerdict(TimeoutReason)

(***************************************************************************)
(* C14                                                                     *)
(***************************************************************************)
NeverCalledReason == "Never called /api/bot - no JS execution"

\* ip's session saw no POST /api/bot and is older than 5 s
DocumentOnlyPastDeadline(ip) ==
  /\ Tracked(ip)
  /\ ~pageVisits[ip].botApiCalled
  /\ now - pageVisits[ip].timestamp > VISIT_TTL

\* C14 as claimed: every status query made more than 5 s after a
\* document-only fetch answers verdict bot, code 1006 with the reason
\* "Never called /api/bot - no JS execution".
C14_StatusAfterDeadline ==
  [][\A ip \in IPs :
       (StatusStep(ip) /\ DocumentOnlyPastDeadline(ip))
         => /\ last'.verdict = "bot"
            /\ last'.code = 1006
            /\ last'.reason = NeverCalledReason]_vars

\* C14 as amended: such a status query answers verdict bot, code 1006; once
\* the deadline callback has run the answer is the frozen verdict, whose
\* reason is the timer's, and only before that the reason is "Never called
\* /api/bot - no JS execution".
C14_StatusAfterDeadlineIsBot ==
  [][\A ip \in IPs :
       (StatusStep(ip) /\ DocumentOnlyPastDeadline(ip))
         => /\ last'.verdict = "bot"
            /\ last'.code = 1006
            /\ IF TimerPending(ip)
                 THEN last'.reason = NeverCalledReason /\ last'.body = NullVerdict
                 ELSE /\ last'.reason = TimeoutReason
                      /\ last'.body = TimeoutVerdict(TimeoutReason)]_vars

\* a status query more than 5 s after a document-only fetch was answered
\* with the frozen verdict of the timer
C14_Witness ==
  /\ last.op = "status"
  /\ DocumentOnlyPastDeadline(last.ip)
  /\ last.verdict = "bot"
  /\ last.code = 1006
  /\ last.reason = TimeoutReason

(***************************************************************************)
(* C15.  Early rejection and the Signal Evaluator.                         *)
(***************************************************************************)
\* the bundle of the request lacks screen.width > 0, navigator.userAgent or
\* window (each read by its truthiness), or jsChallenge.valid is not the
\* boolean true
LacksProofOfExecution(b) ==
  \/ ~Gt(Get2(b, "screen", "width"), 0)
  \/ ~Truthy(Get2(b, "navigator", "userAgent"))
  \/ ~Truthy(Get(b, "window"))
  \/ Get2(b, "jsChallenge", "valid") # Bool(TRUE)

\* the Signal Evaluator was invoked by the request served: it returned the
\* answer or it threw
EvaluatorInvoked == last.evaluated \/ last.threw

\* C15: POST /api/bot answers the synthetic verdict (bot, score 100, code
\* 1005, the single signal jsExecutionFailed of weight 100) without invoking
\* the Signal Evaluator exactly when the bundle lacks screen.width > 0,
\* navigator.userAgent or window, or jsChallenge.valid is not exactly true;
\* the Signal Evaluator is invoked in all and only the other cases.
C15_EarlyRejectFirst ==
  last.op = "bot" =>
    LET rejected ==
          /\ last.body = EarlyRejectVerdict(last.reason)
          /\ last.body.verdict = "bot" /\ last.body.score = 100
          /\ last.body.code = 1005
          /\ Len(last.body.signals) = 1
          /\ last.body.signals[1].name = "jsExecutionFailed"
          /\ last.body.signals[1].weight = 100
    IN  /\ LacksProofOfExecution(request.body) <=> rejected
        /\ LacksProofOfExecution(request.body) <=> ~EvaluatorInvoked

\* a bundle of a clean browser with no jsChallenge key, which the Signal
\* Evaluator would score under the bot threshold, is answered code 1005
C15_Witness ==
  /\ last.op = "bot"
  /\ request.body = Without(BrowserBundle, "jsChallenge")
  /\ ~analysisThrows(request.body, request.headers)
  /\ analyzeBotSignals(request.body, request.headers).verdict # "bot"
  /\ last.verdict = "bot" /\ last.code = 1005 /\ ~EvaluatorInvoked

(***************************************************************************)
(* C16.  Exceptions of the rule evaluation.                                *)
(***************************************************************************)
\* C16: every POST /api/bot with a well-formed JSON body, whichever fields
\* are absent and whatever JSON type the present ones carry, completes with
\* a verdict: no rule of the Signal Evaluator throws.
C16_NoRuleThrows ==
  last.op = "bot" => ~last.threw /\ last.verdict \in {"bot", "suspicious", "human"}

(***************************************************************************)
(* C17.  The requests the classification middleware sees.                  *)
(***************************************************************************)
\* C17: GET /api/challenge and POST /api/challenge/verify, being non-static,
\* non-document requests other than /api/bot, pass through the Header
\* Evaluator and are logged as [header-analysis] before the route answers.
C17_ChallengeRoutesClassified ==
  last.op \in {"challenge", "verify"} => last.headerAnalysis = "evaluated"

(***************************************************************************)
(* C18.  The requests that open a session.                                 *)
(***************************************************************************)
\* the step answers the request that has arrived
ServeStep == request.route # "none" /\ last.op = "none" /\ last'.op # "none"

\* a GET on a non-static, non-/api/ path with Sec-Fetch-Dest: document or an
\* Accept that contains text/html
GetsDocument(req) ==
  /\ req.method = "GET"
  /\ ~(req.path.ext # "" /\ req.path.ext # ".html")
  /\ ~req.path.api
  /\ (req.secFetchDest = "document" \/ Includes(req.accept, "text/html"))

\* C18: a request opens (or replaces) the session of its ip, with a fresh
\* timer, if and only if it is a GET on a non-static, non-/api/ path with
\* Sec-Fetch-Dest: document or an Accept containing text/html; every other
\* request creates no session and arms no timer, and a request the
\* middleware hands to the Header Evaluator leaves the sessions map as it is.
C18_SessionOpenedByDocumentOnly ==
  [][ServeStep =>
       LET ip == request.ip
           due == now + VISIT_TTL
       IN  /\ GetsDocument(request.req) <=> DocumentStep(ip)
           /\ GetsDocument(request.req) =>
                 /\ ip \in DOMAIN pageVisits'
                 /\ pageVisits'[ip] = NewVisit(now, due)
                 /\ <<ip, due>> \in timers'
           /\ ~GetsDocument(request.req) =>
                 /\ DOMAIN pageVisits' = DOMAIN pageVisits
                 /\ timers' \subseteq timers
                 /\ \A x \in DOMAIN pageVisits :
                      pageVisits'[x].timestamp = pageVisits[x].timestamp
           /\ last'.headerAnalysis = "evaluated" =>
                 pageVisits' = pageVisits /\ timers' = timers]_vars

\* GET /index.html with Accept: text/html and no Sec-Fetch-Dest has replaced
\* the session of its ip: the timer of the older session was cleared
C18_Witness ==
  /\ last.op = "page" /\ last.verdict = "pending"
  /\ request.req.path.name = "/index.html"
  /\ request.req.secFetchDest = "undefined"
  /\ Tracked(request.ip) /\ TimerPending(request.ip)
  /\ ~pageVisits[request.ip].botApiCalled
  /\ last.cancelled # 0

(***************************************************************************)
(* C19.  Score, verdict and confidence of both evaluators.                 *)
(***************************************************************************)
\* the sum of the weights of a list of signals
RECURSIVE SumOfWeights(_)
SumOfWeights(signals) ==
  IF signals = << >> THEN 0
  ELSE signals[Len(signals)].weight
         + SumOfWeights(SubSeq(signals, 1, Len(signals) - 1))

\* the request was answered by an evaluator: last.body is its result
AnsweredByEvaluator ==
  last.op = "visit" \/ (last.op = "bot" /\ last.evaluated)

\* C19: for both evaluators the score is min(100, sum of the weights of the
\* detected signals), so it lies in 0..100; the verdict is bot from 50,
\* suspicious from 25, human below; the confidence is high / medium / low by
\* the same thresholds, so it is high exactly when the verdict is bot.
C19_ScoreVerdictConfidence ==
  AnsweredByEvaluator =>
    LET r == last.body
        total == SumOfWeights(r.signals)
    IN  /\ \A i \in DOMAIN r.signals : r.signals[i].detected
        /\ Len(r.signals) = Cardinality({i \in DOMAIN r.allSignals :
                                           r.allSignals[i].detected})
        /\ r.score = (IF total < 100 THEN total ELSE 100)
        /\ 0 <= r.score /\ r.score <= 100
        /\ r.verdict = "bot" <=> r.score >= 50
        /\ r.verdict = "suspicious" <=> (25 <= r.score /\ r.score < 50)
        /\ r.verdict = "human" <=> r.score < 25
        /\ r.confidence = "high" <=> r.score >= 50
        /\ r.confidence = "medium" <=> (25 <= r.score /\ r.score < 50)
        /\ r.confidence = "low" <=> r.score < 25
        /\ r.confidence = "high" <=> r.verdict = "bot"
        /\ last.verdict = r.verdict

\* the Signal Evaluator has answered a bundle whose detected weights add up
\* to more than 100: the score is 100
C19_Witness ==
  /\ last.op = "bot" /\ last.evaluated
  /\ SumOfWeights(last.body.signals) > 100
  /\ last.body.score = 100 /\ last.body.verdict = "bot"

(***************************************************************************)
(* C20.  timingValid of a verification.                                    *)
(***************************************************************************)
\* the number x lies strictly between lo and hi
StrictlyBetween(x, lo, hi) == x.t = "number" /\ lo < x.v /\ x.v < hi

\* C20: a verification of a stored challenge reports timingValid true
\* exactly when the timingProof of the body is within 1000 ms of the
\* issued_at the challenge was handed out with and executionTime is strictly
\* between 0 and 5000, whether the answer is right or wrong.
C20_TimingValid ==
  (last.op = "verify" /\ last.found) =>
    LET id == Get(request.body, "challengeId").v
        issuedAt == issued[id].timingChallenge
        timingProof == Get(request.body, "timingProof")
        executionTime == Get(request.body, "executionTime")
    IN  last.timingValid = Bool(TRUE)
          <=> /\ StrictlyBetween(timingProof, issuedAt - 1000, issuedAt + 1000)
              /\ StrictlyBetween(executionTime, 0, 5000)

\* a wrong answer, sent with a timingProof 999 ms after issued_at and an
\* executionTime of 15 ms, is reported valid: false, timingValid: true
C20_Witness ==
  /\ last.op = "verify" /\ last.found
  /\ ~last.valid
  /\ last.timingValid = Bool(TRUE)
  /\ Get(request.body, "timingProof")
       = Num(issued[Get(request.body, "challengeId").v].timingChallenge + 999)

(***************************************************************************)
(* C21.  The twelve rules of the Header Evaluator.                         *)
(***************************************************************************)
\* the header is sent with the request
Sent(headers, name) == name \in DOMAIN headers.v
\* the value of the header, "" when it is not sent
ValueOf(headers, name) == IF Sent(headers, name) THEN headers.v[name].v ELSE ""

\* the bot patterns the rule table names
NamedBotPatterns ==
  {"python", "curl", "wget", "axios", "node-fetch", "go-http", "java/",
   "libwww", "httpunit", "nutch", "phpcrawl", "msnbot", "scrapy", "mechanize",
   "phantom", "casper", "selenium", "webdriver", "chrome-lighthouse",
   "pingdom", "phantomjs", "headlesschrome", "httpie", "postman", "insomnia",
   "rest-client", "okhttp", "apache-http", "heritrix", "httrack", "teoma",
   "gigablast", "ia_archiver", "ezooms", "linkdex"}

\* the rule table: name, weight and trigger of the twelve rules, in order
HeaderRuleTable(headers) ==
  LET ua == ValueOf(headers, "user-agent")
      accept == ValueOf(headers, "accept")
  IN  << <<"noUserAgent", 30, ~Sent(headers, "user-agent")>>,
         <<"shortUserAgent", 15, 0 < Len(ua) /\ Len(ua) < 20>>,
         <<"botUserAgent", 30,
           \E p \in NamedBotPatterns : Includes(toLowerCase(ua), p)>>,
         <<"headlessUA", 25, Includes(toLowerCase(ua), "headless")>>,
         <<"noAcceptHeader", 10, ~Sent(headers, "accept")>>,
         <<"nonBrowserAccept", 10,
           /\ Sent(headers, "accept")
           /\ ~Includes(accept, "text/html") /\ ~Includes(accept, "*/*")>>,
         <<"noAcceptLanguage", 15, ~Sent(headers, "accept-language")>>,
         <<"noAcceptEncoding", 10, ~Sent(headers, "accept-encoding")>>,
         <<"noSecFetch", 15,
           /\ ~Sent(headers, "sec-fetch-dest")
           /\ ~Sent(headers, "sec-fetch-mode")
           /\ ~Sent(headers, "sec-fetch-site")>>,
         <<"noSecChUa", 8, ~Sent(headers, "sec-ch-ua")>>,
         <<"noConnection", 5, ~Sent(headers, "connection")>>,
         <<"noUpgradeInsecure", 5, ~Sent(headers, "upgrade-insecure-requests")>> >>

\* the names of the signals of a list
NamesOf(signals) == {signals[i].name : i \in DOMAIN signals}

\* C21: for every set of request headers the Header Evaluator detects each
\* of its 12 rules exactly when the trigger of the rule table holds, with
\* the weights 30/15/30/25/10/10/15/10/15/8/5/5; a request that carries only
\* User-Agent: curl/8.1.2 flags exactly botUserAgent, shortUserAgent,
\* noAcceptHeader, noAcceptLanguage, noAcceptEncoding, noSecFetch, noSecChUa,
\* noConnection and noUpgradeInsecure: raw 113, score 100, bot, high.
C21_HeaderRules ==
  last.op = "visit" =>
    LET r == last.body
        table == HeaderRuleTable(request.headers)
    IN  /\ Len(r.allSignals) = 12
        /\ \A i \in 1..12 :
              /\ r.allSignals[i].name = table[i][1]
              /\ r.allSignals[i].weight = table[i][2]
              /\ r.allSignals[i].detected <=> table[i][3]
        /\ DOMAIN request.headers.v = {"user-agent"}
              /\ request.headers.v["user-agent"] = Text("curl/8.1.2")
            => /\ NamesOf(r.signals) =
                    {"botUserAgent", "shortUserAgent", "noAcceptHeader",
                     "noAcceptLanguage", "noAcceptEncoding", "noSecFetch",
                     "noSecChUa", "noConnection", "noUpgradeInsecure"}
               /\ SumOfWeights(r.signals) = 113
               /\ r.score = 100 /\ r.verdict = "bot" /\ r.confidence = "high"

\* the request with User-Agent: curl/8.1.2 alone has been answered
C21_Witness ==
  /\ last.op = "visit"
  /\ DOMAIN request.headers.v = {"user-agent"}
  /\ request.headers.v["user-agent"] = Text("curl/8.1.2")
  /\ Len(last.body.signals) = 9
  /\ last.body.score = 100

(***************************************************************************)
(* C22.  Consistency of Verdict objects.                                   *)
(***************************************************************************)
\* the detected entries of a list of signals, in order
RECURSIVE DetectedOf(_)
DetectedOf(signals) ==
  IF signals = << >> THEN << >>
  ELSE IF signals[1].detected
    THEN <<signals[1]>> \o DetectedOf(SubSeq(signals, 2, Len(signals)))
    ELSE DetectedOf(SubSeq(signals, 2, Len(signals)))

\* the Verdict objects of the state: the one answered last and the ones
\* frozen in sessions
VerdictObjects ==
  ({last.body} \cup {pageVisits[ip].finalVerdict : ip \in DOMAIN pageVisits})
    \ {NullVerdict}

\* C22: every Verdict object, whether of the Header Evaluator, the Signal
\* Evaluator, the early rejection (1005) or the timeout (1006), has signals
\* equal to the detected entries of allSignals, totalChecks = |allSignals|,
\* flagged = |signals| and flagged + passed = totalChecks.
C22_VerdictConsistent ==
  \A verdict \in VerdictObjects :
    /\ verdict.signals = DetectedOf(verdict.allSignals)
    /\ verdict.totalChecks = Len(verdict.allSignals)
    /\ verdict.flagged = Len(verdict.signals)
    /\ verdict.flagged + verdict.passed = verdict.totalChecks

\* the Signal Evaluator has answered a Verdict with detected and undetected
\* signals
C22_Witness ==
  /\ last.op = "bot" /\ last.evaluated
  /\ last.body.flagged > 0 /\ last.body.passed > 0
  /\ last.body \in VerdictObjects

(***************************************************************************)
(* C23.  The rules an evaluator path executes.                             *)
(***************************************************************************)
\* the rules the Signal Evaluator executes for every bundle
UnconditionalRules ==
  {"webdriver", "phantom", "nightmare", "selenium", "domAutomation",
   "jsChallengeFailed", "noBrowserData", "noScreenData", "noWindowData",
   "noNavigatorData", "noTimezoneData", "noPlugins", "noLanguages",
   "headlessUA", "noPermissionsAPI", "softwareRenderer", "noWebGLRenderer",
   "softwareVendor", "noWebGLExtensions", "zeroScreenSize",
   "defaultScreenSize", "noWindowChrome", "noNotifications", "noWebRTC",
   "noIndexedDB", "noLocalStorage", "noSessionStorage", "noBattery",
   "noMediaDevices", "noSpeechVoices", "noFonts", "fewFonts",
   "noCanvasHash", "audioError", "documentHidden", "unusualDPR",
   "lowColorDepth", "navigatorInconsistency", "noGamepadAPI",
   "keyboardAPIError", "noServiceWorker", "noWebAssembly", "noBluetooth",
   "noUSB", "noCredentials", "noAcceptLanguage", "noAcceptHeader",
   "botUserAgent", "shortUserAgent", "noSecFetch", "noConnectionHeader",
   "noCacheControl", "uaMismatch", "languageMismatch", "platformMismatch",
   "timezoneInconsistent", "clientHintsMismatch", "vendorMismatch",
   "productInconsistent", "negativeLoadTime", "zeroLoadTime",
   "mathInconsistent", "noWebGL2"}

\* the rules the Signal Evaluator executes for Chrome user agents only
ChromeOnlyRules ==
  {"missingChrome", "noConnectionAPI", "noPerformanceMemory", "noSecChUa"}

\* the bundle's navigator user agent is a string that contains "Chrome"
UAContainsChrome(browserData) ==
  LET ua == Get2(browserData, "navigator", "userAgent")
  IN  ua.t = "text" /\ Includes(ua.v, "Chrome")

\* the bundle carries mediaDevices, and mediaDevices carries no error
MediaDevicesWithoutError(browserData) ==
  /\ Truthy(Get(browserData, "mediaDevices"))
  /\ ~Truthy(Get2(browserData, "mediaDevices", "error"))

\* the names of a list of signals are pairwise distinct
NoNameTwice(signals) ==
  \A i, j \in DOMAIN signals : signals[i].name = signals[j].name => i = j

\* C23: the Header Evaluator always emits exactly 12 signals; the Signal
\* Evaluator emits its unconditional rules, exactly one of mobileNoTouch and
\* desktopTouchMismatch, jsChallengeTimingSuspicious iff the challenge is
\* valid, zeroMediaDevices iff mediaDevices is present without error, and
\* missingChrome, noConnectionAPI, noPerformanceMemory and noSecChUa iff the
\* navigator user agent contains "Chrome"; no name occurs twice in one
\* allSignals, so the length of allSignals is the number of rules executed.
C23_RulesExecuted ==
  /\ last.op = "visit" =>
        /\ Len(last.body.allSignals) = 12
        /\ NoNameTwice(last.body.allSignals)
  /\ last.op = "bot" /\ last.evaluated =>
        LET names == NamesOf(last.body.allSignals)
            executed ==
              UnconditionalRules
                \cup (IF Get2(request.body, "jsChallenge", "valid") = Bool(TRUE)
                        THEN {"jsChallengeTimingSuspicious"} ELSE {})
                \cup (IF MediaDevicesWithoutError(request.body)
                        THEN {"zeroMediaDevices"} ELSE {})
                \cup (IF UAContainsChrome(request.body)
                        THEN ChromeOnlyRules ELSE {})
        IN  /\ NoNameTwice(last.body.allSignals)
            /\ Cardinality(names \cap {"mobileNoTouch", "desktopTouchMismatch"}) = 1
            /\ names \ {"mobileNoTouch", "desktopTouchMismatch"} = executed
            /\ Len(last.body.allSignals) = Cardinality(executed) + 1

\* the Signal Evaluator has answered a Chrome bundle with mediaDevices: all
\* the conditional rules but one of the touch pair were executed
C23_Witness ==
  /\ last.op = "bot" /\ last.evaluated
  /\ UAContainsChrome(request.body)
  /\ MediaDevicesWithoutError(request.body)
  /\ Len(last.body.allSignals) = Cardinality(UnconditionalRules) + 7
  /\ "desktopTouchMismatch" \in NamesOf(last.body.allSignals)

(***************************************************************************)
(* C24.  The essential-data rules and noBrowserData.                       *)
(***************************************************************************)
\* the rule of that name is detected in the result
Detected(result, name) ==
  \E i \in DOMAIN result.allSignals :
    result.allSignals[i].name = name /\ result.allSignals[i].detected

EssentialDataRules ==
  {"noScreenData", "noWindowData", "noNavigatorData", "noTimezoneData"}

\* the bundle lacks screen, window and navigator
LacksBrowserData(browserData) ==
  /\ ~Truthy(Get(browserData, "screen"))
  /\ ~Truthy(Get(browserData, "window"))
  /\ ~Truthy(Get(browserData, "navigator"))

\* C24: in every result of the Signal Evaluator, noBrowserData is detected
\* exactly when the bundle lacks screen, window and navigator, and then none
\* of noScreenData, noWindowData, noNavigatorData, noTimezoneData is detected.
C24_EssentialOnlyWithBrowserData ==
  last.op \in {"analysis", "bot"} /\ last.evaluated =>
    /\ Detected(last.body, "noBrowserData") <=> LacksBrowserData(request.body)
    /\ Detected(last.body, "noBrowserData") =>
          \A name \in EssentialDataRules : ~Detected(last.body, name)

\* analyzeBotSignals has returned for a bundle without screen, window,
\* navigator and timezone: noBrowserData is detected
C24_Witness ==
  /\ last.op = "analysis" /\ last.evaluated
  /\ LacksBrowserData(request.body)
  /\ Get(request.body, "timezone") = Undefined
  /\ Detected(last.body, "noBrowserData")

(***************************************************************************)
(* C25.  The frame of markBotApiCalled.                                    *)
(***************************************************************************)
\* C25: in a POST /api/bot, markBotApiCalled sets botApiCalled and clears
\* the timer of the session and nothing else: completed, finalVerdict and
\* the timestamp stay as they were, the other sessions, their timers and
\* the counters are untouched, and for an ip without a session nothing
\* changes at all; the step ends with what markBotApiCalled left, completed
\* or not by markVisitComplete, and with no timer armed for the session.
C25_AnalysisRequestedFrame ==
  [][\A ip \in IPs :
       BotStep(ip) =>
         LET T1 == markBotApiCalled(Tracker, ip)
         IN  /\ Tracker' \in {T1, markVisitComplete(T1, ip)}
             /\ T1.bv = botVerdicts
             /\ DOMAIN T1.pv = DOMAIN pageVisits
             /\ \A other \in DOMAIN pageVisits \ {ip} :
                   T1.pv[other] = pageVisits[other]
             /\ {tmr \in T1.tm : tmr[1] # ip} = {tmr \in timers : tmr[1] # ip}
             /\ ~Tracked(ip) => T1 = Tracker /\ Tracker' = Tracker
             /\ Tracked(ip) =>
                   /\ T1.pv[ip].botApiCalled
                   /\ T1.pv[ip].timeoutId = 0
                   /\ T1.pv[ip].completed = pageVisits[ip].completed
                   /\ T1.pv[ip].finalVerdict = pageVisits[ip].finalVerdict
                   /\ T1.pv[ip].timestamp = pageVisits[ip].timestamp
                   /\ \A tmr \in T1.tm \cup timers' : tmr[1] # ip
                   /\ pageVisits'[ip].finalVerdict = pageVisits[ip].finalVerdict]_vars

\* a POST /api/bot rejected before the deadline of an open session: the
\* timer that was armed is cleared and the session is not completed
C25_Witness ==
  /\ last.op = "bot" /\ last.code = 1005
  /\ Tracked(last.ip)
  /\ now < pageVisits[last.ip].timestamp + VISIT_TTL
  /\ pageVisits[last.ip].botApiCalled
  /\ pageVisits[last.ip].timeoutId = 0
  /\ ~pageVisits[last.ip].completed
  /\ pageVisits[last.ip].finalVerdict = NullVerdict
  /\ \A tmr \in timers : tmr[1] # last.ip

(***************************************************************************)
(* C26.  The header rules the two evaluators share.                        *)
(***************************************************************************)
SharedHeaderRules ==
  {"noAcceptLanguage", "noAcceptHeader", "botUserAgent", "shortUserAgent",
   "noSecFetch"}

\* the shared rules on which the Signal Evaluator's result and the Header
\* Evaluator's result for the same headers disagree
Disagreements(result, headers) ==
  {name \in SharedHeaderRules :
     Detected(result, name) # Detected(analyzeHeadersOnly(headers), name)}

\* C26: for every header set, the Signal Evaluator detects noAcceptLanguage,
\* noAcceptHeader, botUserAgent, shortUserAgent and noSecFetch exactly when
\* the Header Evaluator detects them for the same headers.
C26_SameTriggers ==
  last.op = "bot" /\ last.evaluated =>
    Disagreements(last.body, request.headers) = {}

(***************************************************************************)
(* C27.  Sessions with an armed timer.                                     *)
(***************************************************************************)
\* the timer of ip's session is armed: set, not yet run and not cleared
TimerArmed(ip) ==
  /\ Tracked(ip)
  /\ pageVisits[ip].timeoutId # 0
  /\ <<ip, pageVisits[ip].timeoutId>> \in timers

\* C27: a session whose deadline timer is still armed is fresh: botApiCalled
\* false, completed false, finalVerdict null; and every armed timer is the
\* timer of a session, so no analysis completes a session under an armed
\* timer.
C27_ArmedMeansOpen ==
  /\ \A tmr \in timers : TimerArmed(tmr[1]) /\ pageVisits[tmr[1]].timeoutId = tmr[2]
  /\ \A ip \in IPs :
       TimerArmed(ip) =>
         /\ ~pageVisits[ip].botApiCalled
         /\ ~pageVisits[ip].completed
         /\ pageVisits[ip].finalVerdict = NullVerdict

\* the timer of one session is armed past its deadline while the analysis
\* of another session has completed
C27_Witness ==
  \E ip, other \in IPs :
    /\ TimerArmed(ip)
    /\ now >= pageVisits[ip].timeoutId
    /\ Tracked(other) /\ ~TimerArmed(other)
    /\ pageVisits[other].botApiCalled /\ pageVisits[other].completed

(***************************************************************************)
(* C28.  The verdicts stored in sessions.                                  *)
(***************************************************************************)
\* C28: a session with a finalVerdict is completed, and its finalVerdict is
\* the timeout verdict: bot, score 100, code 1006, the single signal
\* noJsExecution of weight 100.  No other verdict is stored in a session.
C28_OnlyTimeoutVerdictStored ==
  \A ip \in DOMAIN pageVisits :
    pageVisits[ip].finalVerdict # NullVerdict =>
      LET stored == pageVisits[ip].finalVerdict
      IN  /\ pageVisits[ip].completed
          /\ stored.verdict = "bot" /\ stored.score = 100 /\ stored.code = 1006
          /\ Len(stored.signals) = 1
          /\ stored.signals[1].name = "noJsExecution"
          /\ stored.signals[1].weight = 100
          /\ stored.signals[1].detected
          /\ stored.allSignals = stored.signals

\* the deadline callback has just stored the verdict of a session while
\* another session was completed by its analysis and stores none
C28_Witness ==
  \E ip, other \in DOMAIN pageVisits :
    /\ last.op = "timer" /\ last.ip = ip /\ last.botVerdictLog.emitted
    /\ pageVisits[ip].finalVerdict # NullVerdict
    /\ pageVisits[other].completed
    /\ pageVisits[other].finalVerdict = NullVerdict

(***************************************************************************)
(* C29.  The flags of a session are monotone.                              *)
(***************************************************************************)
\* the step leaves ip's session in place: it is neither replaced by a
\* document request of ip nor evicted
SessionKept(ip) ==
  /\ Tracked(ip)
  /\ ip \in DOMAIN pageVisits'
  /\ ~DocumentStep(ip)

\* C29: within one session, completed and botApiCalled never go from true
\* to false, whatever timer callbacks, POST /api/bot calls and status
\* queries run; the session is the same one (same timestamp) until a
\* document request of its ip replaces it or the cleanup evicts it.
C29_FlagsMonotone ==
  [][\A ip \in IPs :
       SessionKept(ip) =>
         /\ pageVisits'[ip].timestamp = pageVisits[ip].timestamp
         /\ pageVisits[ip].completed => pageVisits'[ip].completed
         /\ pageVisits[ip].botApiCalled => pageVisits'[ip].botApiCalled]_vars

\* a session that timed out and was then sent an analysis has been asked
\* for its status: both flags are still true
C29_Witness ==
  /\ last.op = "status"
  /\ TimedOut(last.ip)
  /\ pageVisits[last.ip].botApiCalled
  /\ last.code = 1006

(***************************************************************************)
(* C30.  The collector submits at most once.                               *)
(***************************************************************************)
\* C30: in one page load the collector sends POST /api/bot at most once,
\* whatever the order of its timeout, the challenge promise resolving and
\* the challenge promise rejecting: the analysisComplete flag is set exactly
\* when the one POST has been sent, and the callback that runs second finds
\* it set and sends nothing.
C30_SubmitsAtMostOnce ==
  /\ Len(client.posts) <= 1
  /\ client.analysisComplete <=> Len(client.posts) = 1
  /\ (client.timeout = "fired" /\ client.challenge = "settled")
       => Len(client.posts) = 1

\* the timeout submitted the analysis and the challenge promise settled
\* afterwards: its callback sent nothing
C30_Witness ==
  /\ client.timeout = "fired"
  /\ client.challenge = "settled"
  /\ client.posts = <<"timed out">>
====
